---- MODULE Spec2Model ----
(***************************************************************************)
(* Hierarchy reconstruction engine of dpwh-2026-hierarchy-analysis.        *)
(*                                                                         *)
(* Texts are sequences of one-character strings, so that Python's string   *)
(* operations (strip, split, indexing, isdigit, float) are computed on the *)
(* characters.  Columns are 0-indexed as in the source; Cell(row, i) reads *)
(* column i.  An optional value is <<>> (None) or <<x>>.                   *)
(*                                                                         *)
(*   SpecBullet  is_bullet applied to one token                            *)
(*   SpecRow     one row through the CSV and the XLSX row interpretation   *)
(*   Spec        the row loop of parse_hierarchical_csv / _xlsx            *)
(*   SpecFormula parse_formula_references applied to one formula           *)
(*   SpecGraph   build_formula_hierarchy: the scan of the designated       *)
(*               column and the recursion of build_tree_from_relationships *)
(*   SpecJoin    build_tree_from_hierarchy on a row-graph and a row->data  *)
(*               mapping                                                   *)
(*   SpecLabel   process_batch on one data row: label and amount           *)
(*   SpecBatch   load_csv_with_polars: batches, workers and the merge      *)
(*   SpecRun     main of build_tree_with_labels_amounts.py, with workers   *)
(*               that may fail                                             *)
(*   SpecFlatten hierarchy_to_table.py and find_leaves_and_paths on one    *)
(*               tree                                                      *)
(***************************************************************************)
EXTENDS Integers, Sequences, FiniteSets, TLC

VARIABLES
    token,          \* SpecBullet: the argument of is_bullet
    bullet_result,  \* SpecBullet: "pending", or what is_bullet did
    in_row,         \* SpecRow: the row handed to the interpreters
    in_start,       \* SpecRow: start_column
    csv_out,        \* SpecRow: outcome of the CSV path on the row
    xlsx_out,       \* SpecRow: outcome of the XLSX path on the row
    source,         \* Spec: "csv" or "xlsx", the builder that runs
    start_column,   \* Spec: parameter start_column
    row_num,        \* Spec: rows consumed by the loop so far
    nodes,          \* Spec: the node dicts, in order of creation
    root_nodes,     \* Spec: list of node ids
    node_stack,     \* Spec: list of node ids, top last
    current,        \* Spec: the loop's locals for the row just read
    formula,        \* SpecFormula: the argument of parse_formula_references
    parse_result,   \* SpecFormula: whether it returned, and the list returned
    sheet_row,      \* SpecGraph: the last row scanned in the designated column
    formula_cells,  \* SpecGraph: list of dicts row, formula, child_rows
    parent_to_children, \* SpecGraph: dict row -> list of child rows
    child_to_parents,   \* SpecGraph: dict row -> list of parent rows
    root_rows,      \* SpecGraph: list of rows
    hierarchy_tree, \* SpecGraph: `tree` of build_tree_from_relationships
    call_stack,     \* SpecGraph: the frames of build_node, innermost last
    phase,          \* SpecGraph: "scan", "build", "done" or "RecursionError"
    hierarchy,      \* SpecJoin: hierarchy['hierarchy_tree'], the row-graph
    row_data,       \* SpecJoin, SpecBatch: dict row -> label, amount
    joined,         \* SpecJoin: whether it returned, and the tree returned
    batch_row,      \* SpecLabel: the cells of one row dict, column_0 first
    row_entry,      \* SpecLabel: whether the row is processed, and its entry
    csv_file,       \* SpecBatch: the rows of the CSV file, each its cells
    rows_data,      \* SpecBatch: the row dicts left by the filter
    batch_size,     \* SpecBatch: parameter batch_size
    futures,        \* SpecBatch: the submitted batches, in order of submission
    merge_order,    \* SpecBatch: the batches in the order as_completed gave them
    load_phase,     \* SpecBatch: "read", "submit", "collect", "returned"; SpecRun: or "raised"
    run_step,       \* SpecRun: the step main is at, "done" or "failed"
    output_file,    \* SpecRun: None, or the tree save_tree wrote
    data,           \* SpecFlatten: the tree json.load returned
    max_levels,     \* SpecFlatten: parameter max_levels
    leaf_nodes,     \* SpecFlatten: list returned by get_leaf_nodes_with_details
    table_rows,     \* SpecFlatten: `rows` of flatten_hierarchy_to_csv / _json
    parquet_rows,   \* SpecFlatten: list returned by find_leaves_and_paths
    table_file,     \* SpecFlatten: None, or the rows written to output_path
    flatten_step    \* SpecFlatten: the statement reached, or the error raised

bulletVars == <<token, bullet_result>>
rowVars == <<in_row, in_start, csv_out, xlsx_out>>
treeVars == <<source, start_column, row_num, nodes, root_nodes, node_stack,
              current>>
formulaVars == <<formula, parse_result>>
\* the column-position path and the formula-reference path
positionPathVars == <<bulletVars, rowVars, treeVars>>
graphVars == <<sheet_row, formula_cells, parent_to_children, child_to_parents,
               root_rows, hierarchy_tree, call_stack, phase>>
joinVars == <<hierarchy, row_data, joined>>
labelVars == <<batch_row, row_entry>>
batchVars == <<csv_file, rows_data, batch_size, futures, merge_order, load_phase>>
runVars == <<run_step, output_file>>
flattenVars == <<data, max_levels, leaf_nodes, table_rows, parquet_rows, table_file,
                 flatten_step>>
\* the run of the joiner script and the exports
exportVars == <<runVars, flattenVars>>
formulaPathVars == <<formulaVars, graphVars, joinVars, labelVars, batchVars,
                     exportVars>>
vars == <<positionPathVars, formulaPathVars>>

-----------------------------------------------------------------------------
(* Bounds *)

\* longest token handed to is_bullet (besides the long examples)
MaxTokLen == 5
\* widest row; the figure column is the last one
MaxCols == 4
\* rows read by one run of a builder
MaxRows == 4
\* rows of the sheet with a cell in the designated column; row numbers a
\* formula of the model refers to
MaxSheetRows == 3
\* terms joined by '+' in one formula
MaxTerms == 2
\* nodes of the row-graph handed to the Label/Amount Joiner
MaxJoinNodes == 4
\* rows of the CSV file read by load_csv_with_polars
MaxCsvRows == 4
\* largest batch_size
MaxBatchSize == 2
\* nodes of a tree handed to the flatteners
MaxTreeNodes == 4
\* largest max_levels handed to the table export
MaxLevels == 2

-----------------------------------------------------------------------------
(* Python strings *)

Digits == {"0", "1", "2", "3", "4", "5", "6", "7", "8", "9"}
Letters == {"a", "b", "c", "d", "e", "f", "g", "h", "i", "j", "k", "l", "m",
            "n", "o", "p", "q", "r", "s", "t", "u", "v", "w", "x", "y", "z",
            "A", "B", "C", "D", "E", "F", "G", "H", "I", "J", "K", "L", "M",
            "N", "O", "P", "Q", "R", "S", "T", "U", "V", "W", "X", "Y", "Z"}
Whitespace == {" ", "\t"}

Range(s) == {s[i] : i \in DOMAIN s}

\* str.isdigit(): non-empty and every character a digit
isdigit(s) == s # <<>> /\ \A i \in DOMAIN s : s[i] \in Digits

\* str.isalpha(): non-empty and every character a letter
isalpha(s) == s # <<>> /\ \A i \in DOMAIN s : s[i] \in Letters

RECURSIVE lstrip(_)
lstrip(s) == IF s # <<>> /\ Head(s) \in Whitespace THEN lstrip(Tail(s)) ELSE s

RECURSIVE rstrip(_)
rstrip(s) ==
    IF s # <<>> /\ s[Len(s)] \in Whitespace
    THEN rstrip(SubSeq(s, 1, Len(s) - 1)) ELSE s

\* str.strip()
strip(s) == rstrip(lstrip(s))

\* str.replace(old, ''), old one character
RECURSIVE remove_char(_, _)
remove_char(s, old) ==
    IF s = <<>> THEN <<>>
    ELSE IF Head(s) = old THEN remove_char(Tail(s), old)
    ELSE <<Head(s)>> \o remove_char(Tail(s), old)

\* str.split(sep), sep one character: one part more than there are separators
RECURSIVE split(_, _)
split(s, sep) ==
    IF \A i \in DOMAIN s : s[i] # sep THEN <<s>>
    ELSE LET k == CHOOSE i \in DOMAIN s :
                      s[i] = sep /\ \A j \in 1..(i - 1) : s[j] # sep
         IN  <<SubSeq(s, 1, k - 1)>> \o split(SubSeq(s, k + 1, Len(s)), sep)

-----------------------------------------------------------------------------
(* is_bullet *)

\* the guard of the first rule: len(value) > 4
TooLong_off(value) == FALSE
TooLong(value) == Len(value) > 4

\* The function's outcome: "True", "False", or "IndexError" when value[-1]
\* is evaluated on the empty string.
is_bullet(value_arg) ==
    IF value_arg = <<>> THEN "False"
    ELSE LET value == strip(value_arg) IN
         IF TooLong(value) THEN "False"
         ELSE IF Len(value) = 2 /\ value[Len(value)] = "." /\ isalpha(<<value[1]>>)
              THEN "True"
         ELSE IF value = <<>> THEN "IndexError"
         ELSE IF value[Len(value)] = "." /\ isdigit(SubSeq(value, 1, Len(value) - 1))
              THEN "True"
         ELSE IF /\ "." \in Range(value)
                 /\ Len(value) <= 4
                 /\ LET parts == split(value, ".")
                    IN  Len(parts) = 2 /\ isdigit(parts[1]) /\ isdigit(parts[2])
              THEN "True"
         ELSE IF Len(value) = 1 /\ (isalpha(value) \/ isdigit(value))
              THEN "True"
         ELSE "False"

-----------------------------------------------------------------------------
(* Values shared by the specifications *)

None == <<>>
Some(x) == <<x>>

\* all texts over the characters S of length at most n
TextsUpTo(S, n) == UNION {[1..k -> S] : k \in 0..n}

PendingOutcome == [kind |-> "pending", hierarchy_col |-> 0, value |-> <<>>,
                   amount |-> None, is_description |-> FALSE]

BulletIdle == token = <<>> /\ bullet_result = "idle"
RowIdle == /\ in_row = <<>> /\ in_start = 0
           /\ csv_out = PendingOutcome /\ xlsx_out = PendingOutcome
TreeIdle == /\ source = "idle" /\ start_column = 0 /\ row_num = 0
            /\ nodes = <<>> /\ root_nodes = <<>> /\ node_stack = <<>>
            /\ current = PendingOutcome

NotParsed == [done |-> FALSE, refs |-> <<>>]
FormulaIdle == formula = <<>> /\ parse_result = NotParsed

PositionPathIdle == BulletIdle /\ RowIdle /\ TreeIdle
GraphIdle == /\ sheet_row = 0 /\ formula_cells = <<>>
             /\ parent_to_children = <<>> /\ child_to_parents = <<>>
             /\ root_rows = <<>> /\ hierarchy_tree = <<>>
             /\ call_stack = <<>> /\ phase = "idle"
NotJoined == [done |-> FALSE, hierarchy_tree |-> <<>>]
JoinIdle == hierarchy = <<>> /\ row_data = <<>> /\ joined = NotJoined
NotProcessed == [done |-> FALSE, label |-> <<>>, amount |-> None]
LabelIdle == batch_row = <<>> /\ row_entry = NotProcessed
BatchIdle == /\ csv_file = <<>> /\ rows_data = <<>> /\ batch_size = 0
             /\ futures = <<>> /\ merge_order = <<>> /\ load_phase = "idle"
RunIdle == run_step = "idle" /\ output_file = None
FlattenIdle == /\ data = <<>> /\ max_levels = 0 /\ leaf_nodes = <<>>
               /\ table_rows = <<>> /\ parquet_rows = <<>> /\ table_file = None
               /\ flatten_step = "idle"
ExportIdle == RunIdle /\ FlattenIdle
FormulaPathIdle ==
    FormulaIdle /\ GraphIdle /\ JoinIdle /\ LabelIdle /\ BatchIdle /\ ExportIdle

-----------------------------------------------------------------------------
(* float() of the figure text *)

DigitSeq == <<"0", "1", "2", "3", "4", "5", "6", "7", "8", "9">>
DigitValue(c) == (CHOOSE n \in 1..Len(DigitSeq) : DigitSeq[n] = c) - 1

RECURSIVE ToNat(_)
ToNat(s) ==
    IF s = <<>> THEN 0
    ELSE ToNat(SubSeq(s, 1, Len(s) - 1)) * 10 + DigitValue(s[Len(s)])

\* float(s): None for ValueError, else the number, held in thousandths.
\* Python's float takes surrounding whitespace, digits and one '.', with at
\* least one digit.  (Signs, exponents, '_', "inf" and "nan" are not in the
\* texts of this model; its figures have at most 3 fractional digits.)
float(s) ==
    LET t == strip(s)
        parts == split(t, ".")
        int_part == parts[1]
        frac_part == IF Len(parts) = 2 THEN parts[2] ELSE <<>>
    IN  IF /\ t # <<>>
           /\ \A i \in DOMAIN t : t[i] \in Digits \cup {"."}
           /\ Len(parts) <= 2
           /\ int_part \o frac_part # <<>>
        THEN Some(ToNat(int_part) * 1000
                  + ToNat(SubSeq(frac_part \o <<"0", "0", "0">>, 1, 3)))
        ELSE None

-----------------------------------------------------------------------------
(* Cells and rows *)

\* A cell: kind "none" (no value), "str" (text) or "num" (a number, text
\* its str()); italic is the font flag of an XLSX cell.  A CSV cell is the
\* cell's text.
StrCell(text) == [kind |-> "str", text |-> text, italic |-> FALSE]
ItalicCell(text) == [kind |-> "str", text |-> text, italic |-> TRUE]
NumCell(text) == [kind |-> "num", text |-> text, italic |-> FALSE]
EmptyCell == [kind |-> "none", text |-> <<>>, italic |-> FALSE]

\* column i of a row, columns counted from 0
Cell(row, i) == row[i + 1]

\* parameter value_column: the figure column, the last column of the model
value_column == MaxCols - 1

SkipOutcome == [kind |-> "skip", hierarchy_col |-> 0, value |-> <<>>,
                amount |-> None, is_description |-> FALSE]

-----------------------------------------------------------------------------
(* Row Interpreter, CSV (build_hierarchy.py) *)

\* `row[i] and row[i].strip()`
csv_nonempty(cell) == cell.text # <<>> /\ strip(cell.text) # <<>>

\* first loop: the first column from i on holding a bullet, len(row) if none
RECURSIVE csv_first_bullet(_, _)
csv_first_bullet(row, i) ==
    IF i >= Len(row) THEN Len(row)
    ELSE IF csv_nonempty(Cell(row, i)) /\ is_bullet(strip(Cell(row, i).text)) = "True"
         THEN i
    ELSE csv_first_bullet(row, i + 1)

\* second loop: the first non-empty column from i on that is no bullet
RECURSIVE csv_first_value(_, _)
csv_first_value(row, i) ==
    IF i >= Len(row) THEN Len(row)
    ELSE IF csv_nonempty(Cell(row, i)) /\ is_bullet(strip(Cell(row, i).text)) # "True"
         THEN i
    ELSE csv_first_value(row, i + 1)

\* no bullet: (i, i) for the first non-empty column, else None
csv_no_bullet(row, start_col) ==
    LET f == csv_first_value(row, start_col)
    IN  IF f < Len(row) THEN Some(<<f, f>>) ELSE None

\* a bullet with no value in the next column: `return None`
csv_bullet_without_value_falls_through(row, start_col) == csv_no_bullet(row, start_col)
csv_bullet_without_value(row, start_col) == None

\* (hierarchy_column, value_column) or None
find_hierarchy_info(row, start_col) ==
    LET b == csv_first_bullet(row, start_col)
    IN  IF b < Len(row)
        THEN IF b + 1 < Len(row) /\ csv_nonempty(Cell(row, b + 1))
             THEN Some(<<b, b + 1>>)
             ELSE csv_bullet_without_value(row, start_col)
        ELSE csv_no_bullet(row, start_col)

\* the figure column of the row
csv_amount(row) ==
    IF value_column < Len(row) /\ Cell(row, value_column).text # <<>>
    THEN LET amount_str == remove_char(strip(Cell(row, value_column).text), ",")
         IN  IF amount_str # <<>>
             THEN float(amount_str)   \* ValueError is caught: None
             ELSE None
    ELSE None

\* one row of parse_hierarchical_csv up to the node dict: the node to
\* create, or "skip" (continue)
csv_row(row, start_col) ==
    IF ~ \E i \in 0..(Len(row) - 1) : csv_nonempty(Cell(row, i)) THEN SkipOutcome
    ELSE LET hierarchy_info == find_hierarchy_info(row, start_col) IN
         IF hierarchy_info = None THEN SkipOutcome
         ELSE LET hierarchy_col == hierarchy_info[1][1]
                  value_col == hierarchy_info[1][2]
              IN  IF value_col >= Len(row) \/ Cell(row, value_col).text = <<>>
                  THEN SkipOutcome
                  ELSE LET data_value == strip(Cell(row, value_col).text) IN
                       IF data_value = <<>> THEN SkipOutcome
                       ELSE [kind |-> "node", hierarchy_col |-> hierarchy_col,
                             value |-> data_value, amount |-> csv_amount(row),
                             is_description |-> FALSE]

-----------------------------------------------------------------------------
(* Formatting-Aware Row Interpreter, XLSX (build_hierarchy_from_xlsx.py) *)

\* `cell and cell.value`: a Cell object is true, its value is true unless
\* it is None, the empty string or the number zero
xlsx_truthy(cell) ==
    CASE cell.kind = "none" -> FALSE
      [] cell.kind = "str" -> cell.text # <<>>
      [] cell.kind = "num" -> float(cell.text) # Some(0)

\* get_cell_formatting(cell)["italic"]
get_cell_formatting_italic(cell) == cell.italic

\* first loop: the first column from i on holding a bullet, len(row) if none
RECURSIVE xlsx_first_bullet(_, _)
xlsx_first_bullet(row, i) ==
    IF i >= Len(row) THEN Len(row)
    ELSE IF xlsx_truthy(Cell(row, i)) /\ is_bullet(strip(Cell(row, i).text)) = "True"
         THEN i
    ELSE xlsx_first_bullet(row, i + 1)

\* second loop: the first column from i on with a value that is no bullet
RECURSIVE xlsx_first_value(_, _)
xlsx_first_value(row, i) ==
    IF i >= Len(row) THEN Len(row)
    ELSE IF xlsx_truthy(Cell(row, i)) /\ is_bullet(strip(Cell(row, i).text)) # "True"
         THEN i
    ELSE xlsx_first_value(row, i + 1)

\* (hierarchy_column, value_column, is_description) or None
find_hierarchy_info_xlsx(row, start_col) ==
    LET b == xlsx_first_bullet(row, start_col)
        f == xlsx_first_value(row, start_col)
    IN  IF b < Len(row)
        THEN IF b + 1 < Len(row) /\ xlsx_truthy(Cell(row, b + 1))
             THEN Some(<<b, b + 1, get_cell_formatting_italic(Cell(row, b + 1))>>)
             ELSE None
        ELSE IF f < Len(row)
             THEN Some(<<f, f, get_cell_formatting_italic(Cell(row, f))>>)
             ELSE None

\* the figure column of the row
xlsx_amount(row) ==
    IF value_column < Len(row) /\ xlsx_truthy(Cell(row, value_column))
    THEN LET amount_str == remove_char(strip(Cell(row, value_column).text), ",")
         IN  IF amount_str # <<>> THEN float(amount_str) ELSE None
    ELSE None

\* the test that makes a row a description
xlsx_is_description_row(is_description, amount) == is_description /\ amount = None

\* one row of parse_hierarchical_xlsx up to the node dict: the node to
\* create, the description to attach, or "skip" (continue)
xlsx_row(row, start_col) ==
    IF ~ \E i \in 0..(Len(row) - 1) :
             xlsx_truthy(Cell(row, i)) /\ strip(Cell(row, i).text) # <<>>
    THEN SkipOutcome
    ELSE LET hierarchy_info == find_hierarchy_info_xlsx(row, start_col) IN
         IF hierarchy_info = None THEN SkipOutcome
         ELSE LET hierarchy_col == hierarchy_info[1][1]
                  value_col == hierarchy_info[1][2]
                  is_description == hierarchy_info[1][3]
              IN  IF value_col >= Len(row) \/ ~ xlsx_truthy(Cell(row, value_col))
                  THEN SkipOutcome
                  ELSE LET data_value == strip(Cell(row, value_col).text)
                           amount == xlsx_amount(row)
                       IN  IF data_value = <<>> THEN SkipOutcome
                           ELSE [kind |-> IF xlsx_is_description_row(is_description, amount)
                                          THEN "description" ELSE "node",
                                 hierarchy_col |-> hierarchy_col,
                                 value |-> data_value, amount |-> amount,
                                 is_description |-> is_description]

-----------------------------------------------------------------------------
(* SpecRow: one row through both row interpretations *)

Item == <<"I", "t", "e", "m">>
Note == <<"N", "o", "t", "e">>
BulletA == <<"a", ".">>
Figure == <<"1", ",", "0", "0", "0", ".", "5">>

RowCells ==
    { EmptyCell, StrCell(<<" ">>), StrCell(BulletA), StrCell(Item),
      ItalicCell(Note), ItalicCell(BulletA), StrCell(Figure), StrCell(<<"5">>),
      NumCell(<<"0">>) }

\* rows of at most n cells
RowsUpTo(cells, n) == UNION {[1..k -> cells] : k \in 0..n}

StartColumns == {0, 1}

InitRow ==
    /\ in_row \in RowsUpTo(RowCells, MaxCols)
    /\ in_start \in StartColumns
    /\ csv_out = PendingOutcome
    /\ xlsx_out = PendingOutcome
    /\ BulletIdle /\ TreeIdle /\ FormulaPathIdle

\* the CSV path reads the texts of the cells
InterpretCsv ==
    /\ csv_out = PendingOutcome
    /\ csv_out' = csv_row(in_row, in_start)
    /\ UNCHANGED <<in_row, in_start, xlsx_out, bulletVars, treeVars, formulaPathVars>>

InterpretXlsx ==
    /\ xlsx_out = PendingOutcome
    /\ xlsx_out' = xlsx_row(in_row, in_start)
    /\ UNCHANGED <<in_row, in_start, csv_out, bulletVars, treeVars, formulaPathVars>>

NextRow == InterpretCsv \/ InterpretXlsx

SpecRow == InitRow /\ [][NextRow]_vars

-----------------------------------------------------------------------------
(* Position-Based Tree Builder: the row loop of parse_hierarchical_csv and *)
(* parse_hierarchical_xlsx.  A node dict is a record of `nodes`, named by  *)
(* its index; root_nodes, node_stack and children hold these names.        *)
(* hierarchy_col is the dict's "_hierarchy_col"; clean_node deletes that   *)
(* key after the loop and changes nothing else.                            *)

\* `if candidate_col < hierarchy_col`
is_valid_parent_or_equal(candidate_col, hierarchy_col) == candidate_col <= hierarchy_col
is_valid_parent(candidate_col, hierarchy_col) == candidate_col < hierarchy_col

\* `while node_stack:` pops until the top is a valid parent
pop_stack_once(stack, nds, hierarchy_col) ==
    IF stack = <<>> THEN <<>>
    ELSE IF is_valid_parent(nds[stack[Len(stack)]].hierarchy_col, hierarchy_col)
         THEN stack
    ELSE SubSeq(stack, 1, Len(stack) - 1)
RECURSIVE pop_stack(_, _, _)
pop_stack(stack, nds, hierarchy_col) ==
    IF stack = <<>> THEN <<>>
    ELSE IF is_valid_parent(nds[stack[Len(stack)]].hierarchy_col, hierarchy_col)
         THEN stack
    ELSE pop_stack(SubSeq(stack, 1, Len(stack) - 1), nds, hierarchy_col)

\* `parent["children"].append(node)`
children_prepend(children, id) == <<id>> \o children
children_append(children, id) == Append(children, id)

\* `if parent is None: root_nodes.append(node)`
root_nodes_append_always(roots, parent, id) == Append(roots, id)
root_nodes_append(roots, parent, id) ==
    IF parent = None THEN Append(roots, id) ELSE roots

\* the node dict of a row
new_node(out) ==
    [value |-> out.value, amount |-> out.amount, children |-> <<>>,
     hierarchy_col |-> out.hierarchy_col, description |-> None]

\* "Create node" to "Push current node to stack"
create_node_without_pop(out) ==
    LET parent == IF node_stack = <<>> THEN None ELSE Some(node_stack[Len(node_stack)])
        id == Len(nodes) + 1
        grown == Append(nodes, new_node(out))
    IN  /\ nodes' = IF parent = None THEN grown
                    ELSE [grown EXCEPT ![parent[1]].children = children_append(@, id)]
        /\ root_nodes' = root_nodes_append(root_nodes, parent, id)
        /\ node_stack' = Append(node_stack, id)
create_node(out) ==
    LET kept == pop_stack(node_stack, nodes, out.hierarchy_col)
        parent == IF kept = <<>> THEN None ELSE Some(kept[Len(kept)])
        id == Len(nodes) + 1
        grown == Append(nodes, new_node(out))
    IN  /\ nodes' = IF parent = None THEN grown
                    ELSE [grown EXCEPT ![parent[1]].children = children_append(@, id)]
        /\ root_nodes' = root_nodes_append(root_nodes, parent, id)
        /\ node_stack' = Append(kept, id)

\* the description after one more description row
description_overwrite(description, data_value) == Some(data_value)
description_append(description, data_value) ==
    IF description = None THEN Some(data_value)
    ELSE Some(description[1] \o <<" ">> \o data_value)

\* "Handle description rows": attach to node_stack[-1], create nothing
attach_description_as_value(out) ==
    /\ nodes' = IF node_stack = <<>> THEN nodes
                ELSE [nodes EXCEPT ![node_stack[Len(node_stack)]].value =
                                       @ \o <<" ">> \o out.value]
    /\ UNCHANGED <<root_nodes, node_stack>>
attach_description(out) ==
    /\ nodes' = IF node_stack = <<>> THEN nodes
                ELSE [nodes EXCEPT ![node_stack[Len(node_stack)]].description =
                                       description_append(@, out.value)]
    /\ UNCHANGED <<root_nodes, node_stack>>

\* the rest of the loop body, after the row is interpreted
build_step(out) ==
    /\ row_num' = row_num + 1
    /\ current' = out
    /\ CASE out.kind = "skip" -> UNCHANGED <<nodes, root_nodes, node_stack>>
         [] out.kind = "description" -> attach_description(out)
         [] out.kind = "node" -> create_node(out)
    /\ UNCHANGED <<source, start_column, bulletVars, rowVars, formulaPathVars>>

(* The rows the builders read: width MaxCols, the figure in the last column *)

FigureCells == {EmptyCell, StrCell(Figure)}
blank_row(fig) == [i \in 1..MaxCols |-> IF i = MaxCols THEN fig ELSE EmptyCell]
put(row, col, cell) == [row EXCEPT ![col + 1] = cell]

\* text in any set of columns before the figure column
PlainRows(figs) ==
    { [i \in 1..MaxCols |-> IF i = MaxCols THEN fig
                            ELSE IF (i - 1) \in S THEN StrCell(Item) ELSE EmptyCell] :
          S \in SUBSET (0..(value_column - 1)), fig \in figs }

\* a bullet, with or without text in the next column
BulletRows(figs) ==
    { put(put(blank_row(fig), d + 1, c), d, StrCell(BulletA)) :
          d \in 0..(value_column - 2), c \in {EmptyCell, StrCell(Item)}, fig \in figs }
    \cup { put(blank_row(fig), value_column - 1, StrCell(BulletA)) : fig \in figs }

\* rows cut short (a CSV row may miss its last cells)
Prefixes(rows) == { SubSeq(r, 1, k) : r \in rows, k \in 0..MaxCols }

CsvTreeRows == Prefixes(PlainRows(FigureCells) \cup BulletRows(FigureCells))

\* XLSX rows: also whitespace and italic text, and the number 0 as figure
XlsxFigureCells == FigureCells \cup {NumCell(<<"0">>)}
XlsxTreeRows ==
    PlainRows(XlsxFigureCells) \cup BulletRows(XlsxFigureCells)
    \cup { put(blank_row(fig), 1, c) :
               c \in {ItalicCell(Note), StrCell(<<" ">>)}, fig \in XlsxFigureCells }
    \cup { put(put(blank_row(fig), 1, StrCell(BulletA)), 2, ItalicCell(Note)) :
               fig \in XlsxFigureCells }
    \cup { put(put(blank_row(fig), 1, ItalicCell(BulletA)), 2, StrCell(Item)) :
               fig \in XlsxFigureCells }

\* what the interpretation of the rows can hand to the builder
CsvRowOutcomes == [sc \in StartColumns |-> {csv_row(row, sc) : row \in CsvTreeRows}]
XlsxRowOutcomes == [sc \in StartColumns |-> {xlsx_row(row, sc) : row \in XlsxTreeRows}]

Init ==
    /\ source \in {"csv", "xlsx"}
    /\ start_column \in StartColumns
    /\ row_num = 0
    /\ nodes = <<>>
    /\ root_nodes = <<>>
    /\ node_stack = <<>>
    /\ current = PendingOutcome
    /\ BulletIdle /\ RowIdle /\ FormulaPathIdle

\* one iteration of the loop of parse_hierarchical_csv
parse_hierarchical_csv_row ==
    /\ source = "csv"
    /\ row_num < MaxRows
    /\ \E out \in CsvRowOutcomes[start_column] : build_step(out)

\* one iteration of the loop of parse_hierarchical_xlsx
parse_hierarchical_xlsx_row ==
    /\ source = "xlsx"
    /\ row_num < MaxRows
    /\ \E out \in XlsxRowOutcomes[start_column] : build_step(out)

Next == parse_hierarchical_csv_row \/ parse_hierarchical_xlsx_row

Spec == Init /\ [][Next]_vars

-----------------------------------------------------------------------------
(* SpecBullet: is_bullet on one token *)

TokChars == {"a", "1", ".", ",", " "}
LongAmount == <<"1", "8", "3", "7", "1", "1", "5", "0", "0", "0", "0", ".", "0">>
Tokens == TextsUpTo(TokChars, MaxTokLen) \cup {LongAmount, <<"1", ".", "0">>}

InitBullet ==
    /\ token \in Tokens
    /\ bullet_result = "pending"
    /\ RowIdle /\ TreeIdle /\ FormulaPathIdle

Classify ==
    /\ bullet_result = "pending"
    /\ bullet_result' = is_bullet(token)
    /\ UNCHANGED <<token, rowVars, treeVars, formulaPathVars>>

NextBullet == Classify

SpecBullet == InitBullet /\ [][NextBullet]_vars

-----------------------------------------------------------------------------
(* Marker Classifier properties (SpecBullet) *)

\* The rule list of the Marker Classifier, stated on the shape of the token:
\* at most 4 characters, and letter + '.', or digits + '.', or
\* digits '.' digits, or one letter or digit.
RuleListMarker(t) ==
    /\ Len(t) <= 4
    /\ \/ Len(t) = 2 /\ t[2] = "." /\ t[1] \in Letters
       \/ Len(t) >= 2 /\ t[Len(t)] = "." /\ \A i \in 1..(Len(t) - 1) : t[i] \in Digits
       \/ \E k \in 2..(Len(t) - 1) :
              t[k] = "." /\ \A i \in (DOMAIN t) \ {k} : t[i] \in Digits
       \/ Len(t) = 1 /\ t[1] \in (Letters \cup Digits)

Classified == bullet_result # "pending"

\* C5: for every token without surrounding whitespace, is_bullet answers as
\* the ordered rule list does (marker exactly when the token has at most 4
\* characters and matches one of the marker rules); "a." and "1.0" are
\* markers and "18371150000.0" is not.
C5_RuleList ==
    (Classified /\ strip(token) = token) =>
        /\ bullet_result = IF RuleListMarker(token) THEN "True" ELSE "False"
        /\ token = <<"a", ".">> => bullet_result = "True"
        /\ token = <<"1", ".", "0">> => bullet_result = "True"
        /\ token = LongAmount => bullet_result = "False"

C5_Witness == Classified /\ token = LongAmount /\ bullet_result = "False"

\* C6: for every token that is empty or only whitespace, is_bullet returns
\* False as a normal result, without raising an error.
C6_BlankIsNotMarker ==
    (Classified /\ \A i \in DOMAIN token : token[i] \in Whitespace) =>
        bullet_result = "False"

-----------------------------------------------------------------------------
(* Position-Based Tree Builder properties (Spec) *)

NodeIds == 1..Len(nodes)
Max(S) == CHOOSE x \in S : \A y \in S : y <= x
Min(S) == CHOOSE x \in S : \A y \in S : x <= y

\* the nodes that list node i among their children
ParentsOf(i) == {p \in NodeIds : \E k \in DOMAIN nodes[p].children : nodes[p].children[k] = i}

\* how often node i is listed, in root_nodes and in all children lists
Occurrences(i) ==
    Cardinality({k \in DOMAIN root_nodes : root_nodes[k] = i})
    + Cardinality({pk \in NodeIds \X (1..Len(nodes)) :
                       /\ pk[2] \in DOMAIN nodes[pk[1]].children
                       /\ nodes[pk[1]].children[pk[2]] = i})

\* the earlier node-creating rows with a strictly smaller depth column
EarlierSmaller(i) == {j \in 1..(i - 1) : nodes[j].hierarchy_col < nodes[i].hierarchy_col}

\* the list that holds node i: its parent's children, or the root list
ListOf(i) == IF ParentsOf(i) = {} THEN root_nodes
             ELSE nodes[CHOOSE p \in ParentsOf(i) : TRUE].children

DepthColumns == [i \in NodeIds |-> nodes[i].hierarchy_col]

C1_Parent ==
    /\ \A i \in NodeIds :
           IF EarlierSmaller(i) = {}
           THEN ParentsOf(i) = {} /\ i \in Range(root_nodes)
           ELSE ParentsOf(i) = {Max(EarlierSmaller(i))} /\ i \notin Range(root_nodes)
    /\ nodes # <<>> =>
           LET l == ListOf(Len(nodes)) IN l # <<>> /\ l[Len(l)] = Len(nodes)

C1_OneNodePerRow ==
    Len(nodes') = Len(nodes) + (IF row_num' # row_num /\ current'.kind = "node" THEN 1 ELSE 0)

\* C1: the node of a node-creating row is the last child of the node of the
\* latest earlier node-creating row with a strictly smaller depth column,
\* and a root exactly when there is no such row; a row creates at most its
\* own node (a skipped depth column creates none).
C1_ParentResolution == [](C1_Parent) /\ [][C1_OneNodePerRow]_vars

\* a depth-2 node directly under a depth-0 node, no depth-1 node between
C1_Witness ==
    \E i \in NodeIds :
        /\ nodes[i].hierarchy_col = 2
        /\ \E p \in ParentsOf(i) : nodes[p].hierarchy_col = 0

RECURSIVE Ancestors(_)
Ancestors(i) == ParentsOf(i) \cup UNION {Ancestors(p) : p \in {q \in ParentsOf(i) : q < i}}

\* C2: every node is listed exactly once, in the root list or in one
\* node's children, and its depth column is strictly greater than the depth
\* column of each of its ancestors.
C2_WellFormed ==
    \A i \in NodeIds :
        /\ Occurrences(i) = 1
        /\ \A a \in Ancestors(i) : nodes[a].hierarchy_col < nodes[i].hierarchy_col

\* a chain root - child - grandchild next to a second root
C2_Witness ==
    /\ Len(root_nodes) = 2
    /\ \E i \in NodeIds : Cardinality(Ancestors(i)) = 2

IsChildOf(c, p) == \E k \in DOMAIN nodes[p].children : nodes[p].children[k] = c

\* C3 as stated: with depth columns [0,2,0,1] the depth-2 row is attached to
\* the depth-0 root and the depth-1 row is a sibling of the depth-2 node
\* under the same depth-0 root.
C3_AsStated ==
    DepthColumns = <<0, 2, 0, 1>> => IsChildOf(2, 1) /\ IsChildOf(4, 1)

\* C3 amended: with depth columns [0,2,0,1] the depth-2 row is attached to
\* the first depth-0 root, the second depth-0 row is a root too, and the
\* depth-1 row is the child of that second root.
C3_SkipThenReturn ==
    DepthColumns = <<0, 2, 0, 1>> =>
        /\ root_nodes = <<1, 3>>
        /\ nodes[1].children = <<2>>
        /\ nodes[3].children = <<4>>
        /\ nodes[2].children = <<>> /\ nodes[4].children = <<>>

C3_Witness == DepthColumns = <<0, 2, 0, 1>>

\* depth-first pre-order of a forest given by the list of its roots
RECURSIVE PreOrder(_)
PreOrder(ids) ==
    IF ids = <<>> THEN <<>>
    ELSE <<ids[1]>> \o PreOrder(nodes[ids[1]].children) \o PreOrder(Tail(ids))

\* C4: a depth-first pre-order traversal of the forest visits the nodes in
\* the order in which their rows were read, each node once; so the root
\* list and every children list are in source-row order.
C4_SourceOrder ==
    /\ PreOrder(root_nodes) = [i \in NodeIds |-> i]
    /\ Len(nodes) <= row_num

\* a node with two children and a later root
C4_Witness ==
    /\ \E p \in NodeIds : Len(nodes[p].children) = 2
    /\ Len(root_nodes) >= 2

-----------------------------------------------------------------------------
(* Row Interpreter properties (SpecRow) *)

CsvDone == csv_out # PendingOutcome
XlsxDone == xlsx_out # PendingOutcome

\* the columns of the row from the start column on
ScannedColumns == {i \in 0..(Len(in_row) - 1) : i >= in_start}
TextAt(i) == strip(Cell(in_row, i).text)
\* the scanned columns holding a marker, and those holding anything
MarkerColumns == {i \in ScannedColumns : TextAt(i) # <<>> /\ is_bullet(TextAt(i)) = "True"}
NonEmptyColumns == {i \in ScannedColumns : TextAt(i) # <<>>}

\* the row with the columns before the start column emptied
BeforeStartBlanked ==
    [k \in 1..Len(in_row) |-> IF k - 1 < in_start THEN EmptyCell ELSE in_row[k]]

Yields(out, depth, col) ==
    out.kind = "node" /\ out.hierarchy_col = depth /\ out.value = TextAt(col)

\* C7: with m the first scanned column holding a marker, the row yields
\* depth column m and the value of column m+1 when that cell is non-empty,
\* and nothing when it is empty or missing; with no marker, the first
\* non-empty scanned column f yields (f, f); with no non-empty scanned
\* column the row yields nothing; columns before the start column do not
\* influence the result.
C7_RowInterpreter ==
    CsvDone =>
        /\ IF MarkerColumns # {}
           THEN LET m == Min(MarkerColumns) IN
                IF (m + 1) \in NonEmptyColumns
                THEN Yields(csv_out, m, m + 1)
                ELSE csv_out.kind = "skip"
           ELSE IF NonEmptyColumns # {}
                THEN LET f == Min(NonEmptyColumns) IN Yields(csv_out, f, f)
                ELSE csv_out.kind = "skip"
        /\ csv_out = csv_row(BeforeStartBlanked, in_start)

\* a marker with nothing next to it, and text in a later column: skipped
C7_Witness ==
    /\ CsvDone /\ csv_out.kind = "skip"
    /\ MarkerColumns # {}
    /\ \E i \in NonEmptyColumns : i > Min(MarkerColumns) + 1 /\ TextAt(i) = Item

\* what the figure cells of the model are worth as numbers, in thousandths
FigureNumber(cell) ==
    IF cell.text = Figure THEN Some(1000500)
    ELSE IF cell.text = <<"5">> THEN Some(5000)
    ELSE IF cell.text = <<"0">> THEN Some(0)
    ELSE None
RowFigure == IF value_column < Len(in_row) THEN FigureNumber(Cell(in_row, value_column))
             ELSE None

\* C8: in both builders a row with a usable value creates its node (the
\* XLSX rows taken as descriptions aside), with amount absent when the
\* figure cell is empty, missing or not numeric, and with the figure's
\* number as amount when it is numeric.
C8_Amount ==
    /\ (CsvDone /\ csv_out.kind # "skip") =>
           csv_out.kind = "node" /\ csv_out.amount = RowFigure
    /\ (XlsxDone /\ xlsx_out.kind # "skip" /\ ~ xlsx_out.is_description) =>
           xlsx_out.kind = "node" /\ xlsx_out.amount = RowFigure

\* the CSV half of C8 alone
C8_CsvAmount ==
    (CsvDone /\ csv_out.kind # "skip") =>
        csv_out.kind = "node" /\ csv_out.amount = RowFigure

\* the cells C10 speaks of: text cells (empty, whitespace, marker, ordinary
\* text), none italic
PlainTextRow ==
    \A k \in DOMAIN in_row : in_row[k].kind \in {"none", "str"} /\ ~ in_row[k].italic

\* C10: on a row of plain text cells, none italic, the XLSX path yields the
\* outcome of the CSV path: the same (depth column, value, amount), or both
\* skip the row.
C10_XlsxExtendsCsv ==
    (CsvDone /\ XlsxDone /\ PlainTextRow) =>
        /\ xlsx_out.kind = csv_out.kind
        /\ xlsx_out.hierarchy_col = csv_out.hierarchy_col
        /\ xlsx_out.value = csv_out.value
        /\ xlsx_out.amount = csv_out.amount

\* C10 without whitespace-only cells
C10_NoWhitespaceCells ==
    (/\ CsvDone /\ XlsxDone /\ PlainTextRow
     /\ \A k \in DOMAIN in_row : in_row[k].text = <<>> \/ strip(in_row[k].text) # <<>>) =>
        /\ xlsx_out.kind = csv_out.kind
        /\ xlsx_out.hierarchy_col = csv_out.hierarchy_col
        /\ xlsx_out.value = csv_out.value
        /\ xlsx_out.amount = csv_out.amount

\* The is_description flag of an XLSX row is the italic flag of the cell its
\* value is taken from (next to the first marker, else the first value).
XlsxValueCellItalic ==
    (XlsxDone /\ xlsx_out.kind # "skip") =>
        LET B == {i \in ScannedColumns :
                      xlsx_truthy(Cell(in_row, i)) /\ is_bullet(TextAt(i)) = "True"}
            V == {i \in ScannedColumns : xlsx_truthy(Cell(in_row, i))}
            value_col == IF B # {} THEN Min(B) + 1 ELSE Min(V)
        IN  /\ xlsx_out.is_description = Cell(in_row, value_col).italic
            /\ xlsx_out.value = TextAt(value_col)

-----------------------------------------------------------------------------
(* Description rows (Spec, the XLSX builder) *)

Top(stack) == stack[Len(stack)]

C9_DescriptionStep ==
    (row_num' # row_num /\ current'.is_description) =>
        IF current'.amount = None
        THEN /\ Len(nodes') = Len(nodes)
             /\ node_stack' = node_stack
             /\ root_nodes' = root_nodes
             /\ node_stack = <<>> => nodes' = nodes
             /\ node_stack # <<>> =>
                    /\ Top(node_stack) = Len(nodes)
                    /\ nodes' = [nodes EXCEPT ![Top(node_stack)].description =
                                     IF @ = None THEN Some(current'.value)
                                     ELSE Some(@[1] \o <<" ">> \o current'.value)]
        ELSE /\ Len(nodes') = Len(nodes) + 1
             /\ nodes'[Len(nodes')].value = current'.value
             /\ nodes'[Len(nodes')].amount = current'.amount
             /\ Top(node_stack') = Len(nodes')

-----------------------------------------------------------------------------
(* Formula parser: parse_formula_references (build_row_hierarchy.py)       *)

LowerCase == <<"a", "b", "c", "d", "e", "f", "g", "h", "i", "j", "k", "l", "m",
               "n", "o", "p", "q", "r", "s", "t", "u", "v", "w", "x", "y", "z">>
UpperCase == <<"A", "B", "C", "D", "E", "F", "G", "H", "I", "J", "K", "L", "M",
               "N", "O", "P", "Q", "R", "S", "T", "U", "V", "W", "X", "Y", "Z">>

\* re.IGNORECASE compares the characters without their case
upper(c) ==
    IF \E k \in DOMAIN LowerCase : LowerCase[k] = c
    THEN UpperCase[CHOOSE k \in DOMAIN LowerCase : LowerCase[k] = c]
    ELSE c

\* `\d+` from position i: the position of the last digit of the run,
\* i - 1 when s[i] is no digit
RECURSIVE digits_end(_, _)
digits_end(s, i) ==
    IF i <= Len(s) /\ s[i] \in Digits THEN digits_end(s, i + 1) ELSE i - 1

\* the literal text lit at position i
literal_at(s, i, lit) ==
    /\ i + Len(lit) - 1 <= Len(s)
    /\ \A k \in DOMAIN lit : s[i + k - 1] = lit[k]

\* the literal text lit at position i, case ignored
literal_at_ignorecase(s, i, lit) ==
    /\ i + Len(lit) - 1 <= Len(s)
    /\ \A k \in DOMAIN lit : upper(s[i + k - 1]) = upper(lit[k])

\* sum_pattern matched at position i: None, or the two groups.  The digit
\* runs are greedy; what follows each run in the pattern is no digit, so a
\* shorter run never matches where the longest does not.
sum_pattern_at(s, i, target_column) ==
    LET a == i + 4 + Len(target_column)
        a_end == digits_end(s, a)
        b == a_end + 2 + Len(target_column)
        b_end == digits_end(s, b)
    IN  IF /\ literal_at_ignorecase(s, i, <<"S", "U", "M", "(">> \o target_column)
           /\ a_end >= a
           /\ literal_at_ignorecase(s, a_end + 1, <<":">> \o target_column)
           /\ b_end >= b
           /\ literal_at_ignorecase(s, b_end + 1, <<")">>)
        THEN Some(<<SubSeq(s, a, a_end), SubSeq(s, b, b_end)>>)
        ELSE None

\* re.search(sum_pattern, formula, re.IGNORECASE): the leftmost match
re_search_sum(s, target_column) ==
    LET hits == {i \in 1..Len(s) : sum_pattern_at(s, i, target_column) # None}
    IN  IF hits = {} THEN None ELSE sum_pattern_at(s, Min(hits), target_column)

\* the stop of `range(int(group(1)), int(group(2)) + 1)`
range_stop_exclusive(last) == last
range_stop(last) == last + 1

\* list(range(start, stop))
range_list(start, stop) == [k \in 1..(stop - start) |-> start + k - 1]

\* re.findall(cell_pattern, formula): the matches from left to right, none
\* overlapping, the case of the column letter kept
RECURSIVE re_findall_cell(_, _, _)
re_findall_cell(s, i, target_column) ==
    IF i > Len(s) THEN <<>>
    ELSE LET d == i + Len(target_column)
             d_end == digits_end(s, d)
         IN  IF literal_at(s, i, target_column) /\ d_end >= d
             THEN <<SubSeq(s, i, d_end)>> \o re_findall_cell(s, d_end + 1, target_column)
             ELSE re_findall_cell(s, i + 1, target_column)

\* ''.join(filter(str.isdigit, ref))
RECURSIVE filter_isdigit(_)
filter_isdigit(ref) ==
    IF ref = <<>> THEN <<>>
    ELSE IF Head(ref) \in Digits THEN <<Head(ref)>> \o filter_isdigit(Tail(ref))
    ELSE filter_isdigit(Tail(ref))

\* sorted(S) of a set of integers
RECURSIVE sorted(_)
sorted(S) == IF S = {} THEN <<>> ELSE <<Min(S)>> \o sorted(S \ {Min(S)})

\* the list of child rows of a formula
parse_formula_references(formula_arg, target_column) ==
    IF formula_arg = <<>> \/ formula_arg[1] # "=" THEN <<>>
    ELSE LET body == Tail(formula_arg)
             sum_match == re_search_sum(body, target_column)
             cell_refs == re_findall_cell(body, 1, target_column)
         IN  IF sum_match # None
             THEN range_list(ToNat(sum_match[1][1]), range_stop(ToNat(sum_match[1][2])))
             ELSE sorted({ToNat(filter_isdigit(cell_refs[k])) : k \in DOMAIN cell_refs})

-----------------------------------------------------------------------------
(* SpecFormula: parse_formula_references on one formula *)

\* build_formula_hierarchy(xlsx_file, column='K')
target_column_K == <<"K">>

RECURSIVE Numeral(_)
Numeral(n) ==
    IF n < 10 THEN <<DigitSeq[n + 1]>>
    ELSE Numeral(n \div 10) \o <<DigitSeq[(n % 10) + 1]>>

CellRef(col, n) == col \o Numeral(n)
SumRange(fn, col, a, b) ==
    fn \o <<"(">> \o CellRef(col, a) \o <<":">> \o CellRef(col, b) \o <<")">>

SheetRows == 1..MaxSheetRows

\* references to the designated column, and ranges over it, A > B included
ColumnRefs == {CellRef(target_column_K, n) : n \in SheetRows}
ColumnRanges ==
    {SumRange(<<"S", "U", "M">>, target_column_K, a, b) : a, b \in SheetRows}
\* another column, and lower case
OtherTerms ==
    { CellRef(<<"J">>, 2), CellRef(<<"k">>, 2),
      SumRange(<<"s", "u", "m">>, <<"k">>, 1, 2) }
Terms == ColumnRefs \cup ColumnRanges \cup OtherTerms

\* the terms of ts joined by '+'
RECURSIVE JoinPlus(_)
JoinPlus(ts) ==
    IF Len(ts) = 1 THEN ts[1] ELSE ts[1] \o <<"+">> \o JoinPlus(Tail(ts))

TermLists(terms) == UNION {[1..k -> terms] : k \in 1..MaxTerms}

Sum39to55 == <<"=">> \o SumRange(<<"S", "U", "M">>, target_column_K, 39, 55)
Refs7and14 == <<"=">> \o CellRef(target_column_K, 7) \o <<"+">>
              \o CellRef(target_column_K, 14)

\* with and without the leading '='
Formulas ==
    {<<"=">> \o JoinPlus(ts) : ts \in TermLists(Terms)}
    \cup {JoinPlus(ts) : ts \in TermLists(Terms)}
    \cup {<<>>, <<"=">>, Sum39to55, Refs7and14, Tail(Sum39to55), Tail(Refs7and14)}

InitFormula ==
    /\ formula \in Formulas
    /\ parse_result = NotParsed
    /\ PositionPathIdle /\ GraphIdle /\ JoinIdle /\ LabelIdle /\ BatchIdle
    /\ ExportIdle

Parse ==
    /\ ~ parse_result.done
    /\ parse_result' = [done |-> TRUE,
                        refs |-> parse_formula_references(formula, target_column_K)]
    /\ UNCHANGED <<formula, positionPathVars, graphVars, joinVars, labelVars,
                   batchVars, exportVars>>

NextFormula == Parse

SpecFormula == InitFormula /\ [][NextFormula]_vars

-----------------------------------------------------------------------------
(* Formula parser properties (SpecFormula) *)

Parsed == parse_result.done

\* the integers from a to b, ascending
Ascending(a, b) == [k \in 1..(b + 1 - a) |-> a + k - 1]

\* C11: a formula '=SUM(<col>A:<col>B)' over the designated column with
\* A <= B yields every row number from A to B, ascending, B-A+1 entries
\* (17 entries 39..55 for K39:K55); a formula made only of references to
\* the designated column yields exactly the referenced row numbers (K7+K14
\* yields [7,14]); text without the leading '=' yields no references.
C11_FormulaParser ==
    Parsed =>
        /\ \A a, b \in SheetRows :
               (a <= b /\ formula = <<"=">> \o SumRange(<<"S", "U", "M">>, target_column_K, a, b))
                   => /\ parse_result.refs = Ascending(a, b)
                      /\ Len(parse_result.refs) = b - a + 1
        /\ formula = Sum39to55 =>
               /\ Len(parse_result.refs) = 17
               /\ \A k \in 1..17 : parse_result.refs[k] = 38 + k
        /\ \A ns \in TermLists(SheetRows) :
               formula = <<"=">> \o JoinPlus([k \in DOMAIN ns |-> CellRef(target_column_K, ns[k])])
                   => parse_result.refs = sorted(Range(ns))
        /\ formula = Refs7and14 => parse_result.refs = <<7, 14>>
        /\ (formula = <<>> \/ formula[1] # "=") => parse_result.refs = <<>>

\* the range of the example, expanded
C11_Witness == Parsed /\ formula = Sum39to55 /\ Len(parse_result.refs) = 17

\* the terms of the formula, when it is '=' and terms of the model joined
\* by '+'
FormulaTerms ==
    IF \E ts \in TermLists(Terms) : formula = <<"=">> \o JoinPlus(ts)
    THEN CHOOSE ts \in TermLists(Terms) : formula = <<"=">> \o JoinPlus(ts)
    ELSE <<>>

\* the rows a term over the designated column refers to
TermRows(term) ==
    IF term \in ColumnRefs
    THEN {n \in SheetRows : term = CellRef(target_column_K, n)}
    ELSE IF term \in ColumnRanges
    THEN {n \in SheetRows : \E a, b \in SheetRows :
              /\ term = SumRange(<<"S", "U", "M">>, target_column_K, a, b)
              /\ a <= n /\ n <= b}
    ELSE {}

\* C12: for a formula holding a range aggregate together with individual
\* references, or several range aggregates, over the designated column,
\* every row of every range and every individually referenced row is among
\* the child rows extracted for the formula's row.
C12_MixedFormula ==
    (Parsed /\ \E k \in DOMAIN FormulaTerms : FormulaTerms[k] \in ColumnRanges) =>
        \A k \in DOMAIN FormulaTerms :
            TermRows(FormulaTerms[k]) \subseteq Range(parse_result.refs)

-----------------------------------------------------------------------------
(* Formula-Reference Tree Builder: build_formula_hierarchy and             *)
(* build_tree_from_relationships (build_row_hierarchy.py).  A dict is a    *)
(* function on its keys; the keys of parent_to_children are inserted in    *)
(* the order of the scan, that is in ascending row order.                  *)

\* defaultdict(list)[key].append(x)
dict_append(d, key, x) ==
    IF key \in DOMAIN d THEN [d EXCEPT ![key] = Append(@, x)]
    ELSE d @@ (key :> <<x>>)

\* `for child_row in refs: parent_to_children[cell.row].append(child_row)`
RECURSIVE record_children(_, _, _)
record_children(p2c, row, refs) ==
    IF refs = <<>> THEN p2c
    ELSE record_children(dict_append(p2c, row, Head(refs)), row, Tail(refs))

\* `for child_row in refs: child_to_parents[child_row].append(cell.row)`
RECURSIVE record_parents(_, _, _)
record_parents(c2p, row, refs) ==
    IF refs = <<>> THEN c2p
    ELSE record_parents(dict_append(c2p, Head(refs), row), row, Tail(refs))

\* `[row for row in parent_to_children.keys() if row not in child_to_parents]`
find_root_rows_all(p2c, c2p) == sorted(DOMAIN p2c)
find_root_rows(p2c, c2p) == sorted({row \in DOMAIN p2c : row \notin DOMAIN c2p})

\* `parent_to_children.get(row, [])`
children_rows_none(p2c, row) == <<>>
children_rows(p2c, row) == IF row \in DOMAIN p2c THEN p2c[row] ELSE <<>>

\* `node['children'].append(child_node)`
node_children_keep_first(children, child_node) ==
    IF children = <<>> THEN <<child_node>> ELSE children
node_children_append(children, child_node) == Append(children, child_node)

\* a frame of build_node(row): the node dict and the position of the loop
\* over children_rows
Frame(row) == [row |-> row, children |-> <<>>, next |-> 1]

\* the rows formulas refer to: the rows of the sheet and, by a single
\* reference, the row below the last one
RefRows == 1..(MaxSheetRows + 1)

\* frames of build_node the interpreter allows (sys.getrecursionlimit(),
\* scaled to the model): as many as there are rows, the depth an acyclic
\* graph over these rows can need
RecursionLimit == Cardinality(RefRows)

\* the cells of the designated column: a number, or a formula
NumberCell == [data_type |-> "n", value |-> <<"5">>]
FormulaCell(text) == [data_type |-> "f", value |-> text]
SheetCells ==
    {NumberCell, FormulaCell(<<"=">> \o CellRef(<<"J">>, 2))}
    \cup {FormulaCell(<<"=">> \o CellRef(target_column_K, n)) : n \in RefRows}
    \cup {FormulaCell(<<"=">> \o SumRange(<<"S", "U", "M">>, target_column_K, ab[1], ab[2])) :
              ab \in {x \in SheetRows \X SheetRows : x[1] < x[2]}}

InitGraph ==
    /\ sheet_row = 0
    /\ formula_cells = <<>>
    /\ parent_to_children = <<>>
    /\ child_to_parents = <<>>
    /\ root_rows = <<>>
    /\ hierarchy_tree = <<>>
    /\ call_stack = <<>>
    /\ phase = "scan"
    /\ PositionPathIdle /\ FormulaIdle /\ JoinIdle /\ LabelIdle /\ BatchIdle
    /\ ExportIdle

\* one cell of `for row in sheet.iter_rows(...): for cell in row:`
scan_cell ==
    /\ phase = "scan"
    /\ sheet_row < MaxSheetRows
    /\ \E cell \in SheetCells :
           LET row == sheet_row + 1
               refs == parse_formula_references(cell.value, target_column_K)
           IN  /\ sheet_row' = row
               /\ IF cell.data_type = "f"
                  THEN /\ formula_cells' =
                              Append(formula_cells,
                                     [row |-> row, formula |-> cell.value,
                                      child_rows |-> refs])
                       /\ parent_to_children' = record_children(parent_to_children, row, refs)
                       /\ child_to_parents' = record_parents(child_to_parents, row, refs)
                  ELSE UNCHANGED <<formula_cells, parent_to_children, child_to_parents>>
    /\ UNCHANGED <<root_rows, hierarchy_tree, call_stack, phase,
                   positionPathVars, formulaVars, joinVars, labelVars, batchVars,
                   exportVars>>

\* after the scan: root_rows, and build_tree_from_relationships is entered
find_roots ==
    /\ phase = "scan"
    /\ sheet_row = MaxSheetRows
    /\ root_rows' = find_root_rows(parent_to_children, child_to_parents)
    /\ phase' = "build"
    /\ UNCHANGED <<sheet_row, formula_cells, parent_to_children, child_to_parents,
                   hierarchy_tree, call_stack, positionPathVars, formulaVars, joinVars, labelVars, batchVars,
                   exportVars>>

\* a call of build_node: for the next root, or for the next child row of
\* the innermost frame; RecursionError when the interpreter allows no
\* further frame
build_node_call ==
    /\ phase = "build"
    /\ IF call_stack = <<>>
       THEN /\ Len(hierarchy_tree) < Len(root_rows)
            /\ call_stack' = <<Frame(sorted(Range(root_rows))[Len(hierarchy_tree) + 1])>>
            /\ UNCHANGED phase
       ELSE LET top == call_stack[Len(call_stack)]
                rows == children_rows(parent_to_children, top.row)
            IN  /\ top.next <= Len(rows)
                /\ IF Len(call_stack) >= RecursionLimit
                   THEN phase' = "RecursionError" /\ UNCHANGED call_stack
                   ELSE call_stack' = Append(call_stack, Frame(rows[top.next]))
                        /\ UNCHANGED phase
    /\ UNCHANGED <<sheet_row, formula_cells, parent_to_children, child_to_parents,
                   root_rows, hierarchy_tree, positionPathVars, formulaVars, joinVars, labelVars, batchVars,
                   exportVars>>

\* `return node`: to the caller's children, or to `tree` for a root
build_node_return ==
    /\ phase = "build"
    /\ call_stack # <<>>
    /\ LET top == call_stack[Len(call_stack)]
           rest == SubSeq(call_stack, 1, Len(call_stack) - 1)
           node == [row |-> top.row, children |-> top.children]
       IN  /\ top.next > Len(children_rows(parent_to_children, top.row))
           /\ IF rest = <<>>
              THEN /\ hierarchy_tree' = Append(hierarchy_tree, node)
                   /\ call_stack' = <<>>
              ELSE /\ call_stack' =
                          [rest EXCEPT ![Len(rest)] =
                              [@ EXCEPT !.children = node_children_append(@, node),
                                        !.next = @ + 1]]
                   /\ UNCHANGED hierarchy_tree
    /\ UNCHANGED <<sheet_row, formula_cells, parent_to_children, child_to_parents,
                   root_rows, phase, positionPathVars, formulaVars, joinVars, labelVars, batchVars,
                   exportVars>>

\* `return tree` and the dict build_formula_hierarchy returns
return_hierarchy ==
    /\ phase = "build"
    /\ call_stack = <<>>
    /\ Len(hierarchy_tree) = Len(root_rows)
    /\ phase' = "done"
    /\ UNCHANGED <<sheet_row, formula_cells, parent_to_children, child_to_parents,
                   root_rows, hierarchy_tree, call_stack, positionPathVars,
                   formulaVars, joinVars, labelVars, batchVars, exportVars>>

NextGraph ==
    scan_cell \/ find_roots \/ build_node_call \/ build_node_return
    \/ return_hierarchy

\* the program runs on until it returns or raises
SpecGraph == InitGraph /\ [][NextGraph]_vars /\ WF_vars(NextGraph)

-----------------------------------------------------------------------------
(* Formula-Reference Tree Builder properties (SpecGraph) *)

\* the child rows listed for row r
Kids(r) == IF r \in DOMAIN parent_to_children THEN parent_to_children[r] ELSE <<>>

\* S and the rows reached from S along at most n references
RECURSIVE Below(_, _)
Below(S, n) ==
    IF n = 0 THEN S ELSE Below(S \cup UNION {Range(Kids(x)) : x \in S}, n - 1)

\* the rows reached from r along one or more references
Descendants(r) == Below(Range(Kids(r)), Cardinality(RefRows))

OnCycle(r) == r \in Descendants(r)
Acyclic == \A r \in RefRows : ~ OnCycle(r)

\* the formula rows with at least one extracted reference, and the rows
\* some formula refers to
Referencing ==
    {formula_cells[k].row : k \in {i \in DOMAIN formula_cells :
                                       formula_cells[i].child_rows # <<>>}}
Referenced == UNION {Range(formula_cells[k].child_rows) : k \in DOMAIN formula_cells}
GraphRoots == Referencing \ Referenced

\* some root reaches a row that lies on a cycle
CycleUnderRoot == \E r \in GraphRoots : \E x \in Descendants(r) : OnCycle(x)

Returned == phase = "done"
Raised == phase = "RecursionError"

\* C13 as stated: whenever the formula references are cyclic, the build
\* gives no finite result.
C13_AsStated == Returned => Acyclic

\* C13 amended: the build always ends; it returns a result exactly when no
\* root reaches a cycle (so on every acyclic graph, and also on a cyclic
\* graph whose cycles no root reaches), and it exhausts the recursion depth
\* exactly when some root reaches a cycle.
C13_Termination ==
    /\ [](Returned => ~ CycleUnderRoot)
    /\ [](Raised => CycleUnderRoot)
    /\ <>(Returned \/ Raised)

\* a row whose range holds its own row number, and a finite result
C13_Witness ==
    /\ Returned
    /\ hierarchy_tree # <<>>
    /\ \E r \in DOMAIN parent_to_children : r \in Range(parent_to_children[r])

\* C14: the two mappings are mutual inverses; parent_to_children has an
\* entry exactly for the formula rows with at least one extracted
\* reference and child_to_parents exactly for the referenced rows; the
\* roots are the rows with an entry in the first and none in the second,
\* and hierarchy_tree has one top-level node per root, in ascending row
\* order.
C14_Roots ==
    /\ \A p, c \in RefRows :
           (p \in DOMAIN parent_to_children /\ c \in Range(parent_to_children[p]))
               <=> (c \in DOMAIN child_to_parents /\ p \in Range(child_to_parents[c]))
    /\ DOMAIN parent_to_children = Referencing
    /\ DOMAIN child_to_parents = Referenced
    /\ phase \in {"build", "done", "RecursionError"} =>
           /\ Range(root_rows) = GraphRoots
           /\ Len(root_rows) = Cardinality(GraphRoots)
    /\ Returned =>
           [k \in DOMAIN hierarchy_tree |-> hierarchy_tree[k].row] = sorted(GraphRoots)

\* two roots, and a formula row that is no root
C14_Witness ==
    /\ Returned
    /\ Len(hierarchy_tree) = 2
    /\ Referencing \cap Referenced # {}

\* the full unfolding of the references below row r
RECURSIVE Unfold(_)
Unfold(r) ==
    [row |-> r, children |-> [k \in DOMAIN Kids(r) |-> Unfold(Kids(r)[k])]]

\* a node of the tree and all nodes below it
RECURSIVE Subtrees(_)
Subtrees(node) ==
    {node} \cup UNION {Subtrees(node.children[k]) : k \in DOMAIN node.children}
TreeNodes == UNION {Subtrees(hierarchy_tree[k]) : k \in DOMAIN hierarchy_tree}

\* C15: in the tree that is returned, the children of every node are the
\* unfoldings of the child rows listed for its row, in the order of the
\* list; so a row referenced by several parents has its complete subtree
\* once under each of them, and all copies are equal.
C15_SharedChild ==
    Returned =>
        /\ hierarchy_tree =
               [k \in 1..Cardinality(GraphRoots) |-> Unfold(sorted(GraphRoots)[k])]
        /\ \A n \in TreeNodes :
               [k \in DOMAIN n.children |-> n.children[k].row] = Kids(n.row)
        /\ \A n1, n2 \in TreeNodes : n1.row = n2.row => n1 = n2

\* two different parents holding the same child, which has children itself
C15_Witness ==
    /\ Returned
    /\ \E n1, n2 \in TreeNodes :
           /\ n1.row # n2.row
           /\ \E k1 \in DOMAIN n1.children, k2 \in DOMAIN n2.children :
                  /\ n1.children[k1] = n2.children[k2]
                  /\ n1.children[k1].children # <<>>

-----------------------------------------------------------------------------
(* Label/Amount Joiner: build_tree_from_hierarchy                          *)
(* (build_tree_with_labels_amounts.py).  An entry of row_data is a record  *)
(* label, amount; a joined node is a record row, label, amount, children.  *)

\* `row_data.get(row_num, {})`, then `data.get('label', '')`
data_label(rd, row_no) == IF row_no \in DOMAIN rd THEN rd[row_no].label ELSE <<>>

\* `data.get('amount', 0.0)`
data_amount(rd, row_no) == IF row_no \in DOMAIN rd THEN rd[row_no].amount ELSE Some(0)

\* `not label or not str(label).strip()`
is_blank_label_empty_only(label) == label = <<>>
is_blank_label(label) == label = <<>> \/ strip(label) = <<>>

\* `if child_result is not None: result['children'].append(child_result)`,
\* over the results of the children in order
RECURSIVE non_none(_)
non_none(results) ==
    IF results = <<>> THEN <<>>
    ELSE (IF Head(results) = None THEN <<>> ELSE <<Head(results)[1]>>)
         \o non_none(Tail(results))

\* `result` of build_node once its children are built
joined_node_all_or_nothing(row_no, label, amount, child_results) ==
    IF \E k \in DOMAIN child_results : child_results[k] = None THEN None
    ELSE Some([row |-> row_no, label |-> label, amount |-> amount,
               children |-> non_none(child_results)])
joined_node(row_no, label, amount, child_results) ==
    Some([row |-> row_no, label |-> label, amount |-> amount,
          children |-> non_none(child_results)])

\* build_node(node): None, or the joined node
RECURSIVE join_build_node(_, _)
join_build_node(node, rd) ==
    LET row_no == node.row
        label == data_label(rd, row_no)
    IN  IF is_blank_label(label) THEN None
        ELSE joined_node(row_no, label, data_amount(rd, row_no),
                         [k \in DOMAIN node.children |->
                              join_build_node(node.children[k], rd)])

\* the tree of the dict that is returned
build_tree_from_hierarchy(hierarchy_arg, rd) ==
    non_none([k \in DOMAIN hierarchy_arg |-> join_build_node(hierarchy_arg[k], rd)])

-----------------------------------------------------------------------------
(* SpecJoin: build_tree_from_hierarchy on one row-graph and one mapping *)

\* Row-graphs of n nodes.  The nodes are numbered 1..n in pre-order and
\* carry their number as row; par[i] is the parent of node i, 0 for a root.
RECURSIVE PathToRoot(_, _)
PathToRoot(par, i) == IF i = 0 THEN {} ELSE {i} \cup PathToRoot(par, par[i])

ParentVectors(n) ==
    {par \in [1..n -> 0..(n - 1)] :
         \A i \in 1..n :
             /\ par[i] < i
             /\ par[i] = 0 \/ (i > 1 /\ par[i] \in PathToRoot(par, i - 1))}

RECURSIVE RowGraphNode(_, _, _)
RowGraphNode(par, n, i) ==
    [row |-> i,
     children |-> LET kids == sorted({c \in 1..n : par[c] = i})
                  IN  [k \in DOMAIN kids |-> RowGraphNode(par, n, kids[k])]]

RowGraph(par, n) ==
    LET roots == sorted({c \in 1..n : par[c] = 0})
    IN  [k \in DOMAIN roots |-> RowGraphNode(par, n, roots[k])]

\* what the mapping holds for row r: nothing, an empty label, a label of
\* whitespace, or a label; the amount tells the rows apart
RowLabel(r) == <<"R">> \o Numeral(r)
RowEntries(r) ==
    { [label |-> <<>>, amount |-> Some(r * 1000)],
      [label |-> <<" ", " ">>, amount |-> Some(r * 1000)],
      [label |-> RowLabel(r), amount |-> Some(r * 1000)] }
RowDatas(n) ==
    UNION { {rd \in [present -> UNION {RowEntries(r) : r \in present}] :
                 \A r \in present : rd[r] \in RowEntries(r)} :
            present \in SUBSET (1..n) }

InitJoin ==
    /\ \E n \in 1..MaxJoinNodes :
           /\ hierarchy \in {RowGraph(par, n) : par \in ParentVectors(n)}
           /\ row_data \in RowDatas(n)
    /\ joined = NotJoined
    /\ PositionPathIdle /\ FormulaIdle /\ GraphIdle /\ LabelIdle /\ BatchIdle
    /\ ExportIdle

Join ==
    /\ ~ joined.done
    /\ joined' = [done |-> TRUE,
                  hierarchy_tree |-> build_tree_from_hierarchy(hierarchy, row_data)]
    /\ UNCHANGED <<hierarchy, row_data, positionPathVars, formulaVars, graphVars,
                   labelVars, batchVars, exportVars>>

NextJoin == Join

SpecJoin == InitJoin /\ [][NextJoin]_vars

-----------------------------------------------------------------------------
(* Label/Amount Joiner properties (SpecJoin) *)

Joined == joined.done

\* the node occurrences of the row-graph and of the joined tree
InputNodes == UNION {Subtrees(hierarchy[k]) : k \in DOMAIN hierarchy}
JoinedNodes ==
    UNION {Subtrees(joined.hierarchy_tree[k]) : k \in DOMAIN joined.hierarchy_tree}
JoinedRows == {j.row : j \in JoinedNodes}

\* the resolved label of row r is blank: the row is missing from the
\* mapping, or its label is empty or only whitespace
BlankRow(r) ==
    \/ r \notin DOMAIN row_data
    \/ \A i \in DOMAIN row_data[r].label : row_data[r].label[i] \in Whitespace

\* the rows of the nodes above the node of row r in the row-graph (each
\* row of the row-graphs of SpecJoin names one node)
RowsAbove(r) == {a.row : a \in {n \in InputNodes : \E m \in Subtrees(n) \ {n} : m.row = r}}

RowsOf(nodelist) == [k \in DOMAIN nodelist |-> nodelist[k].row]
NonBlankNode(n) == ~ BlankRow(n.row)

\* C16: a row-graph node whose resolved label is blank (empty, whitespace
\* only, or its row missing from the mapping) is nowhere in the joined
\* tree, and neither is any node of its subtree, whatever their labels:
\* they are in no children list and not in the root list.
C16_Pruning ==
    Joined =>
        \A n \in InputNodes :
            BlankRow(n.row) => \A m \in Subtrees(n) : m.row \notin JoinedRows

\* a blank node under a kept parent, with a labelled child of its own
C16_Witness ==
    /\ Joined
    /\ \E p \in InputNodes : \E k \in DOMAIN p.children :
           /\ p.row \in JoinedRows
           /\ BlankRow(p.children[k].row)
           /\ \E c \in Subtrees(p.children[k]) : ~ BlankRow(c.row)

\* C17: a row-graph node is in the joined tree exactly when its own label
\* and the labels of all nodes above it are non-blank, whatever happens to
\* its children; the children of a joined node, and the joined roots, are
\* the non-blank ones of the row-graph in their order there.
C17_Kept ==
    Joined =>
        /\ JoinedRows =
               {n.row : n \in {x \in InputNodes :
                                   /\ ~ BlankRow(x.row)
                                   /\ \A a \in RowsAbove(x.row) : ~ BlankRow(a)}}
        /\ \A j \in JoinedNodes :
               LET n == CHOOSE x \in InputNodes : x.row = j.row
               IN  RowsOf(j.children) = RowsOf(SelectSeq(n.children, NonBlankNode))
        /\ RowsOf(joined.hierarchy_tree) = RowsOf(SelectSeq(hierarchy, NonBlankNode))
        /\ \A j1, j2 \in JoinedNodes : j1.row = j2.row => j1 = j2

\* a node kept with its first and third child, the second one pruned
C17_Witness ==
    /\ Joined
    /\ \E n \in InputNodes : \E j \in JoinedNodes :
           /\ j.row = n.row
           /\ Len(n.children) = 3
           /\ RowsOf(j.children) = <<n.children[1].row, n.children[3].row>>

\* every joined node carries the label and the amount the mapping holds
\* for its row
JoinedCarriesData ==
    Joined =>
        \A j \in JoinedNodes :
            /\ j.row \in DOMAIN row_data
            /\ j.label = row_data[j.row].label
            /\ j.amount = row_data[j.row].amount

-----------------------------------------------------------------------------
(* Row-to-label mapping: parse_amount, get_deepest_label, process_batch    *)
(* (build_tree_with_labels_amounts.py).  A row dict is the sequence of its *)
(* cells column_0, column_1, ...; a cell is null (EmptyCell) or a text.    *)
(* The figure column is value_column (column_10 in the source) and the     *)
(* label columns are the columns before it (column_0 .. column_9).         *)

\* re.sub(r'[\s,\'"]', '', s)
RECURSIVE remove_chars(_, _)
remove_chars(s, chars) ==
    IF s = <<>> THEN <<>>
    ELSE IF Head(s) \in chars THEN remove_chars(Tail(s), chars)
    ELSE <<Head(s)>> \o remove_chars(Tail(s), chars)

CleanedAway == Whitespace \cup {",", "'", "\""}

\* `return 0.0`
amount_unparsed_none == None
amount_unparsed == Some(0)

\* parse_amount(row_data.get('column_10'))
parse_amount(cell) ==
    IF cell.kind = "none" \/ strip(cell.text) = <<>> THEN amount_unparsed
    ELSE LET cleaned == remove_chars(cell.text, CleanedAway)
         IN  IF float(cleaned) = None   \* ValueError
             THEN amount_unparsed
             ELSE float(cleaned)

\* the first column of `range(9, -1, -1)`
deepest_label_column_figure == value_column
deepest_label_column == value_column - 1

\* `val is not None and str(val).strip()`
label_cell_nonempty(cell) == cell.kind # "none" /\ strip(cell.text) # <<>>

\* the loop of get_deepest_label from column col_idx down to column 0
RECURSIVE get_deepest_label_from(_, _)
get_deepest_label_from(row, col_idx) ==
    IF col_idx < 0 THEN <<>>
    ELSE IF col_idx < Len(row) /\ label_cell_nonempty(Cell(row, col_idx))
         THEN strip(Cell(row, col_idx).text)
    ELSE get_deepest_label_from(row, col_idx - 1)

get_deepest_label(row) == get_deepest_label_from(row, deepest_label_column)

\* the entry process_batch writes for a row
process_batch_entry(row) ==
    [label |-> get_deepest_label(row),
     amount |-> parse_amount(IF value_column < Len(row) THEN Cell(row, value_column)
                             ELSE EmptyCell)]

-----------------------------------------------------------------------------
(* SpecLabel: process_batch on one data row *)

PaddedItem == <<" ">> \o Item \o <<" ">>

DataCells ==
    { EmptyCell, StrCell(<<>>), StrCell(<<" ">>), StrCell(PaddedItem),
      StrCell(Note), StrCell(Figure) }

\* row dicts: the label columns, the figure column and one column beyond
DataRows == [1..(MaxCols + 1) -> DataCells]

InitLabel ==
    /\ batch_row \in DataRows
    /\ row_entry = NotProcessed
    /\ PositionPathIdle /\ FormulaIdle /\ GraphIdle /\ JoinIdle /\ BatchIdle
    /\ ExportIdle

process_batch_row ==
    /\ ~ row_entry.done
    /\ row_entry' = [done |-> TRUE,
                     label |-> process_batch_entry(batch_row).label,
                     amount |-> process_batch_entry(batch_row).amount]
    /\ UNCHANGED <<batch_row, positionPathVars, formulaVars, graphVars, joinVars,
                   batchVars, exportVars>>

NextLabel == process_batch_row

SpecLabel == InitLabel /\ [][NextLabel]_vars

-----------------------------------------------------------------------------
(* Row-to-label mapping properties (SpecLabel) *)

Processed == row_entry.done

\* the label columns whose cell is neither null nor only whitespace
LabelColumns == 0..(value_column - 1)
NonEmptyLabelColumns ==
    {i \in LabelColumns :
         /\ Cell(batch_row, i).kind # "none"
         /\ \E k \in DOMAIN Cell(batch_row, i).text :
                Cell(batch_row, i).text[k] \notin Whitespace}

\* the text from its first to its last character that is no whitespace
Trimmed(t) ==
    LET ix == {k \in DOMAIN t : t[k] \notin Whitespace}
    IN  IF ix = {} THEN <<>> ELSE SubSeq(t, Min(ix), Max(ix))

\* the row with the figure column and the columns beyond it emptied
LabelColumnsOnly ==
    [k \in DOMAIN batch_row |-> IF (k - 1) \in LabelColumns THEN batch_row[k]
                                ELSE EmptyCell]

\* C18: the label of a data row is the trimmed text of the right-most
\* label column whose cell is neither null nor only whitespace, and the
\* empty text when there is none; the cells of the figure column and
\* beyond do not influence it.
C18_DeepestLabel ==
    Processed =>
        /\ row_entry.label =
               IF NonEmptyLabelColumns = {} THEN <<>>
               ELSE Trimmed(Cell(batch_row, Max(NonEmptyLabelColumns)).text)
        /\ row_entry.label = process_batch_entry(LabelColumnsOnly).label

\* text in two label columns and in the figure column: the right-most
\* label column wins
C18_Witness ==
    /\ Processed
    /\ Cell(batch_row, 0).text = Note
    /\ Cell(batch_row, value_column - 1).text = PaddedItem
    /\ Cell(batch_row, value_column).text = Note
    /\ row_entry.label = Item

\* the figure text after the cleanup, and whether it is a number
CleanedFigure ==
    SelectSeq(Cell(batch_row, value_column).text, LAMBDA c : c \notin CleanedAway)
NumericFigure ==
    /\ \A k \in DOMAIN CleanedFigure : CleanedFigure[k] \in Digits \cup {"."}
    /\ \E k \in DOMAIN CleanedFigure : CleanedFigure[k] \in Digits
    /\ Cardinality({k \in DOMAIN CleanedFigure : CleanedFigure[k] = "."}) <= 1

\* C19 as stated: a row whose figure cell is empty or not numeric after
\* cleanup gets an absent amount in the mapping.
C19_AbsentAmount == (Processed /\ ~ NumericFigure) => row_entry.amount = None

\* C19 amended: every row gets a number as amount; a row whose figure cell
\* is empty or not numeric after cleanup gets the amount 0.0, and the
\* figure 1,000.5 gets 1000.5.
C19_ZeroAmount ==
    Processed =>
        /\ row_entry.amount # None
        /\ ~ NumericFigure => row_entry.amount = Some(0)
        /\ Cell(batch_row, value_column).text = Figure => row_entry.amount = Some(1000500)

\* a labelled row with text that is no number in the figure column
C19_Witness ==
    /\ Processed
    /\ Cell(batch_row, value_column).text = Note
    /\ row_entry.label = Item
    /\ row_entry.amount = Some(0)

-----------------------------------------------------------------------------
(* load_csv_with_polars: reading, filtering, batching and merging           *)
(*                                                                         *)
(* The CSV file is a sequence of rows of cells.  with_row_index gives each *)
(* row its 1-indexed position as __row_num before the filter drops the     *)
(* rows whose columns 0 .. value_column are all null.  The rows left are   *)
(* cut into batches of batch_size rows, each batch is submitted to a       *)
(* worker process running process_batch, and the main process merges the   *)
(* results with dict.update in the order as_completed yields them.         *)

\* `pl.any_horizontal([pl.col(f"column_{i}").is_not_null() for i in range(11)])`
has_data(cells) ==
    \E col_idx \in 0..value_column :
        col_idx < Len(cells) /\ Cell(cells, col_idx).kind # "none"

\* with_row_index(name="__row_num", offset=1), then filter, then to_dicts()
RECURSIVE filter_rows_from(_, _)
filter_rows_from(file, idx) ==
    IF idx > Len(file) THEN <<>>
    ELSE (IF has_data(file[idx]) THEN <<[row_num |-> idx, cells |-> file[idx]]>>
          ELSE <<>>) \o filter_rows_from(file, idx + 1)

to_dicts(file) == filter_rows_from(file, 1)

\* `num_batches = (len(rows_data) + batch_size - 1) // batch_size`
num_batches_floor(n, size) == n \div size
num_batches(n, size) == (n + size - 1) \div size

\* `rows_data[start:end]` of batch batch_idx (0-based)
batch_slice(rows, size, batch_idx) ==
    LET start == batch_idx * size
        end == Min({(batch_idx + 1) * size, Len(rows)})
    IN  SubSeq(rows, start + 1, end)

\* `result[row_num] = {...}` and dict.update(other)
dict_update(d, other) ==
    [k \in DOMAIN d \cup DOMAIN other |-> IF k \in DOMAIN other THEN other[k] ELSE d[k]]

\* process_batch(batch, chunk_info): the rows in order, a row whose
\* __row_num is 0 skipped
RECURSIVE process_batch(_)
process_batch(batch) ==
    IF batch = <<>> THEN <<>>
    ELSE LET done == process_batch(SubSeq(batch, 1, Len(batch) - 1))
             last == batch[Len(batch)]
         IN  IF last.row_num = 0 THEN done
             ELSE dict_update(done, last.row_num :> process_batch_entry(last.cells))

-----------------------------------------------------------------------------
(* SpecBatch: one run of load_csv_with_polars *)

NullRow == [k \in 1..(MaxCols + 1) |-> EmptyCell]

\* a row with text only in the column after the figure column
BeyondRow == [k \in 1..(MaxCols + 1) |-> IF k - 1 > value_column THEN StrCell(Note)
                                         ELSE EmptyCell]

\* a row with a label, in a column and with a text that depend on its
\* position n, and with a figure when n is odd
LabelledRow(n) ==
    [k \in 1..(MaxCols + 1) |->
        IF k - 1 = n % value_column
            THEN StrCell(IF n % 2 = 0 THEN PaddedItem ELSE Note)
        ELSE IF k - 1 = value_column /\ n % 2 = 1 THEN StrCell(Figure)
        ELSE EmptyCell]

CsvFiles ==
    { file \in [1..MaxCsvRows -> {NullRow, BeyondRow} \cup
                                 {LabelledRow(n) : n \in 1..MaxCsvRows}] :
        \A n \in 1..MaxCsvRows :
            file[n] \in {NullRow, BeyondRow, LabelledRow(n)} }

BatchSizes == 1..MaxBatchSize

InitBatch ==
    /\ csv_file \in CsvFiles
    /\ batch_size \in BatchSizes
    /\ rows_data = <<>>
    /\ futures = <<>>
    /\ merge_order = <<>>
    /\ load_phase = "read"
    /\ PositionPathIdle /\ FormulaIdle /\ GraphIdle /\ JoinIdle /\ LabelIdle
    /\ ExportIdle

\* pl.read_csv .. `rows_data = df.to_dicts()`, `row_data = {}`
read_csv ==
    /\ load_phase = "read"
    /\ rows_data' = to_dicts(csv_file)
    /\ load_phase' = "submit"
    /\ UNCHANGED <<csv_file, batch_size, futures, merge_order,
                   positionPathVars, formulaVars, graphVars, joinVars, labelVars,
                   exportVars>>

\* one turn of `for batch_idx in range(num_batches)`
submit_batch ==
    /\ load_phase = "submit"
    /\ Len(futures) < num_batches(Len(rows_data), batch_size)
    /\ futures' = Append(futures,
                         [batch |-> batch_slice(rows_data, batch_size, Len(futures)),
                          state |-> "running",
                          result |-> <<>>])
    /\ UNCHANGED <<csv_file, rows_data, batch_size, merge_order, load_phase,
                   positionPathVars, formulaVars, graphVars, joinVars, labelVars,
                   exportVars>>

\* the end of the submitting loop
all_submitted ==
    /\ load_phase = "submit"
    /\ Len(futures) >= num_batches(Len(rows_data), batch_size)
    /\ load_phase' = "collect"
    /\ UNCHANGED <<csv_file, rows_data, batch_size, futures, merge_order,
                   positionPathVars, formulaVars, graphVars, joinVars, labelVars,
                   exportVars>>

\* a worker process finishes process_batch on its batch
worker_done(f) ==
    /\ futures[f].state = "running"
    /\ futures' = [futures EXCEPT ![f].state = "done",
                                  ![f].result = process_batch(futures[f].batch)]
    /\ UNCHANGED <<csv_file, rows_data, batch_size, merge_order, load_phase,
                   positionPathVars, formulaVars, graphVars, joinVars, labelVars,
                   exportVars>>

\* one turn of `for future in as_completed(futures)`
collect_result(f) ==
    /\ load_phase = "collect"
    /\ futures[f].state = "done"
    /\ row_data' = dict_update(row_data, futures[f].result)
    /\ futures' = [futures EXCEPT ![f].state = "collected"]
    /\ merge_order' = Append(merge_order, f)
    /\ UNCHANGED <<csv_file, rows_data, batch_size, load_phase, hierarchy, joined,
                   positionPathVars, formulaVars, graphVars, labelVars,
                   exportVars>>

\* `return row_data`
return_row_data ==
    /\ load_phase = "collect"
    /\ \A f \in DOMAIN futures : futures[f].state = "collected"
    /\ load_phase' = "returned"
    /\ UNCHANGED <<csv_file, rows_data, batch_size, futures, merge_order,
                   positionPathVars, formulaVars, graphVars, joinVars, labelVars,
                   exportVars>>

NextBatch ==
    \/ read_csv
    \/ submit_batch
    \/ all_submitted
    \/ \E f \in DOMAIN futures : worker_done(f)
    \/ \E f \in DOMAIN futures : collect_result(f)
    \/ return_row_data

SpecBatch == InitBatch /\ [][NextBatch]_vars

-----------------------------------------------------------------------------
(* Parallel join properties (SpecBatch) *)

Submitted == load_phase \in {"collect", "returned"}
Loaded == load_phase = "returned"

\* the positions of the rows of the file that pass the filter
DataRowNumbers ==
    {n \in DOMAIN csv_file :
        \E k \in DOMAIN csv_file[n] : k - 1 <= value_column /\ csv_file[n][k] # EmptyCell}

\* the row numbers of a batch
BatchKeys(f) == {futures[f].batch[k].row_num : k \in DOMAIN futures[f].batch}

Collected == {f \in DOMAIN futures : futures[f].state = "collected"}

\* C20: once all batches are submitted, every data row is in exactly one
\* batch and the batches' row numbers are pairwise disjoint; the merged
\* mapping holds exactly the rows of the batches merged so far, whatever
\* the order of completion; and the mapping returned has one entry per
\* data row, equal to what process_batch computes for the rows in one
\* sequential pass.
C20_ParallelJoin ==
    /\ Submitted =>
          /\ \A n \in DataRowNumbers :
                 Cardinality({f \in DOMAIN futures : n \in BatchKeys(f)}) = 1
          /\ \A f \in DOMAIN futures :
                 /\ BatchKeys(f) \subseteq DataRowNumbers
                 /\ Cardinality(BatchKeys(f)) = Len(futures[f].batch)
          /\ \A f, g \in DOMAIN futures : f # g => BatchKeys(f) \cap BatchKeys(g) = {}
    /\ DOMAIN row_data = UNION {BatchKeys(f) : f \in Collected}
    /\ \A n \in DOMAIN row_data : row_data[n] = process_batch_entry(csv_file[n])
    /\ Loaded =>
          /\ DOMAIN row_data = DataRowNumbers
          /\ row_data = process_batch(rows_data)

\* three batches merged with the last one first, from a file with a
\* dropped row
C20_Witness ==
    /\ Loaded
    /\ Len(merge_order) >= 3
    /\ merge_order[1] = Len(futures)
    /\ merge_order[2] = 1
    /\ DataRowNumbers # DOMAIN csv_file
    /\ \E n \in DOMAIN row_data : row_data[n].amount = Some(1000500)

-----------------------------------------------------------------------------
(* SpecRun: main of build_tree_with_labels_amounts.py                       *)
(*                                                                         *)
(* Step 1 has loaded the row-graph; Step 2 is load_csv_with_polars, whose  *)
(* workers may fail; Step 3 joins, Step 5 saves.  A failed worker leaves   *)
(* its exception in the future, future.result() raises it in the merging   *)
(* loop, and neither load_csv_with_polars nor main catches it.             *)

\* the state of a future whose worker failed
failed_future_state_done == "done"
failed_future_state == "failed"

\* the row-graphs of two rows: a root with a child, or two roots
RunHierarchies == {RowGraph(par, 2) : par \in ParentVectors(2)}

InitRun ==
    /\ csv_file \in CsvFiles
    /\ batch_size \in BatchSizes
    /\ rows_data = <<>>
    /\ futures = <<>>
    /\ merge_order = <<>>
    /\ load_phase = "read"
    /\ hierarchy \in RunHierarchies
    /\ row_data = <<>>
    /\ joined = NotJoined
    /\ run_step = "Step 2"
    /\ output_file = None
    /\ PositionPathIdle /\ FormulaIdle /\ GraphIdle /\ LabelIdle /\ FlattenIdle

\* a worker process fails on its batch
worker_failed(f) ==
    /\ futures[f].state = "running"
    /\ futures' = [futures EXCEPT ![f].state = failed_future_state]
    /\ UNCHANGED <<csv_file, rows_data, batch_size, merge_order, load_phase,
                   positionPathVars, formulaVars, graphVars, joinVars, labelVars,
                   exportVars>>

\* `batch_result = future.result()` raises: the exception leaves the loop,
\* the `with` block, load_csv_with_polars and main
result_raises(f) ==
    /\ load_phase = "collect"
    /\ futures[f].state = "failed"
    /\ load_phase' = "raised"
    /\ run_step' = "failed"
    /\ UNCHANGED <<csv_file, rows_data, batch_size, futures, merge_order, output_file,
                   positionPathVars, formulaVars, graphVars, joinVars, labelVars,
                   flattenVars>>

\* Step 3: `tree = build_tree_from_hierarchy(hierarchy, row_data)`
build_tree_step ==
    /\ run_step = "Step 2"
    /\ load_phase = "returned"
    /\ joined' = [done |-> TRUE,
                  hierarchy_tree |-> build_tree_from_hierarchy(hierarchy, row_data)]
    /\ run_step' = "Step 5"
    /\ UNCHANGED <<hierarchy, row_data, output_file, positionPathVars, formulaVars,
                   graphVars, labelVars, batchVars, flattenVars>>

\* Step 5: `save_tree(tree, str(output_path))`
save_tree ==
    /\ run_step = "Step 5"
    /\ output_file' = Some(joined.hierarchy_tree)
    /\ run_step' = "done"
    /\ UNCHANGED <<positionPathVars, formulaVars, graphVars, joinVars, labelVars,
                   batchVars, flattenVars>>

NextRun ==
    \/ NextBatch
    \/ \E f \in DOMAIN futures : worker_failed(f)
    \/ \E f \in DOMAIN futures : result_raises(f)
    \/ build_tree_step
    \/ save_tree

SpecRun == InitRun /\ [][NextRun]_vars

-----------------------------------------------------------------------------
(* Failure properties (SpecRun) *)

SomeWorkerFailed == \E f \in DOMAIN futures : futures[f].state = "failed"
RunFailed == run_step = "failed"

\* C21: a failed worker is fatal for the run.  Once a worker has failed no
\* joined tree is built and nothing is saved, and a failure that reached
\* the merging loop ends the run; the output file is written only when
\* every batch completed and was merged, and then it holds the tree joined
\* from the complete mapping.
C21_FatalFailure ==
    /\ SomeWorkerFailed => (joined = NotJoined /\ output_file = None)
    /\ RunFailed => (SomeWorkerFailed /\ load_phase = "raised")
    /\ output_file # None =>
          /\ load_phase = "returned"
          /\ \A f \in DOMAIN futures : futures[f].state = "collected"
          /\ row_data = process_batch(rows_data)
          /\ output_file = Some(build_tree_from_hierarchy(hierarchy, row_data))

\* a run that failed after another batch had been merged already
C21_Witness ==
    /\ RunFailed
    /\ merge_order # <<>>
    /\ row_data # <<>>
    /\ output_file = None

\* a run without failure that saved a tree with a node
SavedTree == run_step = "done" /\ output_file # None /\ output_file[1] # <<>>

-----------------------------------------------------------------------------
(* Flattener (hierarchy_to_table.py) and the Parquet export's              *)
(* find_leaves_and_paths (hierarchy_to_parquet_v1.py)                      *)
(*                                                                         *)
(* The tree is what json.load returns: a list of node dicts.  A node of    *)
(* the position-based builders is a record value, amount, description,     *)
(* children, with description None when the dict has no such key; a        *)
(* joined node is a record row, label, amount, children.  A leaf_info is   *)
(* modelled without its 'ancestors' list, which nothing reads.             *)

\* dict.get(key, default)
get(node, key, default) == IF key \in DOMAIN node THEN node[key] ELSE default

\* `not node.get('children')`
is_leaf_always(node) == TRUE
is_leaf(node) == get(node, "children", <<>>) = <<>>

\* `level_num = len(current_path) - 1`
level_num_of_length(current_path) == Len(current_path)
level_num_of(current_path) == Len(current_path) - 1

\* node.get('description', '')
description_or_empty(node) ==
    LET d == get(node, "description", None) IN IF d = None THEN <<>> ELSE d[1]

\* `node['value']` raises KeyError at the first node visited without the key
RECURSIVE raises_KeyError(_)
raises_KeyError(node_list) ==
    \E k \in DOMAIN node_list :
        \/ "value" \notin DOMAIN node_list[k]
        \/ (~ is_leaf(node_list[k]) /\ raises_KeyError(node_list[k].children))

\* get_leaf_nodes_with_details(nodes, parent_info), for nodes that have
\* their value
RECURSIVE get_leaf_nodes_with_details(_, _, _)
get_leaf_nodes_with_details(node_list, parent_path, parent_levels) ==
    IF node_list = <<>> THEN <<>>
    ELSE LET node == Head(node_list)
             current_path == Append(parent_path, node.value)
             level_num == level_num_of(current_path)
             current_levels ==
                 dict_update(parent_levels,
                             level_num :> [value |-> node.value,
                                           amount |-> get(node, "amount", None),
                                           description |-> get(node, "description", None)])
             found ==
                 IF is_leaf(node)
                 THEN <<[path |-> current_path,
                         levels |-> current_levels,
                         value |-> node.value,
                         description |-> description_or_empty(node),
                         amount |-> get(node, "amount", None),
                         depth |-> level_num]>>
                 ELSE get_leaf_nodes_with_details(node.children, current_path,
                                                  current_levels)
         IN  found \o get_leaf_nodes_with_details(Tail(node_list), parent_path, parent_levels)

\* sep.join(texts)
RECURSIVE join(_, _)
join(sep, texts) ==
    IF texts = <<>> THEN <<>>
    ELSE IF Len(texts) = 1 THEN texts[1]
    ELSE texts[1] \o sep \o join(sep, Tail(texts))

PathSeparator == <<" ", ">", " ">>

\* leaf_to_table_row(leaf, max_levels); level[i] is the field level_i
leaf_to_table_row(leaf, levels_arg) ==
    [level |-> [i \in 0..(levels_arg - 1) |->
                    IF i \in DOMAIN leaf.levels THEN leaf.levels[i].value ELSE <<>>],
     value |-> leaf.value,
     description |-> leaf.description,
     amount |-> leaf.amount,
     depth |-> leaf.depth,
     full_path |-> join(PathSeparator, leaf.path)]

\* `max(leaf['depth'] for leaf in leaf_nodes)`: None stands for ValueError
max_depth_default(leaves) ==
    IF leaves = <<>> THEN Some(0)
    ELSE Some(Max({leaves[k].depth : k \in DOMAIN leaves}))
max_depth_of(leaves) ==
    IF leaves = <<>> THEN None
    ELSE Some(Max({leaves[k].depth : k \in DOMAIN leaves}))

\* `actual_max_levels = max(max_levels, max_depth + 1)`
actual_max_levels_configured(levels_arg, max_depth) == levels_arg
actual_max_levels(levels_arg, max_depth) == Max({levels_arg, max_depth + 1})

\* the level columns of the Parquet rows, level_1 .. level_11
ParquetLevels == 11

\* traverse(node, current_path) of find_leaves_and_paths
RECURSIVE traverse(_, _)
traverse(node, current_path) ==
    LET children == get(node, "children", <<>>)
        value == strip(get(node, "value", <<>>))
    IN  IF children = <<>>
        THEN LET path == Append(current_path, value)
             IN  <<[path |-> join(PathSeparator, path),
                    level |-> [i \in 1..ParquetLevels |->
                                   IF Len(path) > i - 1 THEN path[i] ELSE <<>>],
                    value |-> value,
                    description |-> description_or_empty(node),
                    amount |-> get(node, "amount", None),
                    depth |-> Len(path)]>>
        ELSE LET below == [k \in DOMAIN children |->
                               traverse(children[k], Append(current_path, value))]
                 flat[k \in 0..Len(below)] ==
                     IF k = 0 THEN <<>> ELSE flat[k - 1] \o below[k]
             IN  flat[Len(below)]

\* find_leaves_and_paths(nodes)
RECURSIVE find_leaves_and_paths(_)
find_leaves_and_paths(node_list) ==
    IF node_list = <<>> THEN <<>>
    ELSE traverse(Head(node_list), <<>>) \o find_leaves_and_paths(Tail(node_list))

-----------------------------------------------------------------------------
(* SpecFlatten: one tree through flatten_hierarchy_to_csv / _json, which   *)
(* differ only in the writer, and through find_leaves_and_paths            *)

NotRun == [done |-> FALSE, rows |-> <<>>]

\* the node with number i of a tree of n nodes: its value names it, every
\* second node has an amount, the third a description and a padded value
NodeValue(i) ==
    IF i = 3 THEN <<" ">> \o <<"N">> \o Numeral(i) \o <<" ">> ELSE <<"N">> \o Numeral(i)
RECURSIVE TreeNode(_, _, _)
TreeNode(par, n, i) ==
    [value |-> NodeValue(i),
     amount |-> IF i % 2 = 1 THEN Some(i * 1000) ELSE None,
     description |-> IF i = 3 THEN Some(Note) ELSE None,
     children |-> LET kids == sorted({c \in 1..n : par[c] = i})
                  IN  [k \in DOMAIN kids |-> TreeNode(par, n, kids[k])]]

\* the trees of the position-based builders, the empty tree among them
PositionTrees ==
    {<<>>} \cup
    UNION { { LET roots == sorted({c \in 1..n : par[c] = 0})
              IN  [k \in DOMAIN roots |-> TreeNode(par, n, roots[k])] :
              par \in ParentVectors(n) } : n \in 1..MaxTreeNodes }

\* the trees of the Label/Amount Joiner for two labelled rows
JoinedTrees ==
    { build_tree_from_hierarchy(
          h, [r \in 1..2 |-> [label |-> RowLabel(r), amount |-> Some(r * 1000)]]) :
      h \in RunHierarchies }

InitFlatten ==
    /\ data \in PositionTrees \cup JoinedTrees
    /\ max_levels \in 1..MaxLevels
    /\ leaf_nodes = <<>>
    /\ table_rows = <<>>
    /\ parquet_rows = NotRun
    /\ table_file = None
    /\ flatten_step = "loaded"
    /\ PositionPathIdle /\ FormulaIdle /\ GraphIdle /\ JoinIdle /\ LabelIdle
    /\ BatchIdle /\ RunIdle

\* `leaf_nodes = get_leaf_nodes_with_details(data)`
extract_leaf_nodes ==
    /\ flatten_step = "loaded"
    /\ IF raises_KeyError(data)
       THEN flatten_step' = "KeyError" /\ UNCHANGED leaf_nodes
       ELSE /\ leaf_nodes' = get_leaf_nodes_with_details(data, <<>>, <<>>)
            /\ flatten_step' = "extracted"
    /\ UNCHANGED <<data, max_levels, table_rows, parquet_rows, table_file,
                   positionPathVars, formulaVars, graphVars, joinVars, labelVars,
                   batchVars, runVars>>

\* "Determine actual max depth" to `rows = [leaf_to_table_row(...) ...]`
convert_to_rows ==
    /\ flatten_step = "extracted"
    /\ LET max_depth == max_depth_of(leaf_nodes) IN
       IF max_depth = None
       THEN flatten_step' = "ValueError" /\ UNCHANGED table_rows
       ELSE /\ table_rows' =
                   [k \in DOMAIN leaf_nodes |->
                        leaf_to_table_row(leaf_nodes[k],
                                          actual_max_levels(max_levels, max_depth[1]))]
            /\ flatten_step' = "converted"
    /\ UNCHANGED <<data, max_levels, leaf_nodes, parquet_rows, table_file,
                   positionPathVars, formulaVars, graphVars, joinVars, labelVars,
                   batchVars, runVars>>

\* `with open(output_path, 'w', ...)`: the header and the rows
write_table ==
    /\ flatten_step = "converted"
    /\ table_file' = Some(table_rows)
    /\ flatten_step' = "written"
    /\ UNCHANGED <<data, max_levels, leaf_nodes, table_rows, parquet_rows,
                   positionPathVars, formulaVars, graphVars, joinVars, labelVars,
                   batchVars, runVars>>

\* `leaf_rows = find_leaves_and_paths(root_nodes)` of the Parquet export
find_leaves ==
    /\ ~ parquet_rows.done
    /\ parquet_rows' = [done |-> TRUE, rows |-> find_leaves_and_paths(data)]
    /\ UNCHANGED <<data, max_levels, leaf_nodes, table_rows, table_file, flatten_step,
                   positionPathVars, formulaVars, graphVars, joinVars, labelVars,
                   batchVars, runVars>>

NextFlatten == extract_leaf_nodes \/ convert_to_rows \/ write_table \/ find_leaves

SpecFlatten == InitFlatten /\ [][NextFlatten]_vars

-----------------------------------------------------------------------------
(* Flattener properties (SpecFlatten) *)

\* An address is the sequence of child positions leading from the list of
\* roots to a node.
RECURSIVE Addresses(_)
Addresses(forest) ==
    UNION { {<<k>>} \cup {<<k>> \o a : a \in Addresses(forest[k].children)} :
            k \in DOMAIN forest }

RECURSIVE NodeAt(_, _)
NodeAt(forest, a) ==
    IF Len(a) = 1 THEN forest[a[1]] ELSE NodeAt(forest[a[1]].children, Tail(a))

Childless(forest) == {a \in Addresses(forest) : NodeAt(forest, a).children = <<>>}

\* a comes before b in a depth-first walk that visits a node before its
\* children and the children in list order
Before(a, b) ==
    \E k \in 1..Len(b) :
        /\ \A j \in 1..(k - 1) : j <= Len(a) /\ a[j] = b[j]
        /\ \/ (k = Len(a) + 1)
           \/ (k <= Len(a) /\ a[k] < b[k])

\* the childless nodes in that order
ChildlessInOrder(forest) ==
    LET L == Childless(forest)
    IN  [k \in 1..Cardinality(L) |->
             CHOOSE a \in L : Cardinality({b \in L : Before(b, a)}) = k - 1]

\* the values from the root down to the node at address a
ValuesTo(forest, a) ==
    [k \in 1..Len(a) |-> NodeAt(forest, SubSeq(a, 1, k)).value]

RECURSIVE SumAmounts(_)
SumAmounts(amounts) ==
    IF amounts = <<>> THEN 0
    ELSE (IF Head(amounts) = None THEN 0 ELSE Head(amounts)[1]) + SumAmounts(Tail(amounts))

Extracted == flatten_step \in {"extracted", "converted", "written", "ValueError"}
Converted == flatten_step \in {"converted", "written"}
PositionTree == data \in PositionTrees

\* C22: the flattener emits exactly one record per childless node and none
\* for a node with children, in depth-first pre-order; the number of
\* records is the number of childless nodes and the amounts of the records
\* sum to the amounts of the childless nodes.
C22_OneRecordPerLeaf ==
    (Extracted /\ PositionTree) =>
        LET leaves == ChildlessInOrder(data) IN
        /\ Len(leaf_nodes) = Cardinality(Childless(data))
        /\ Len(leaf_nodes) = Len(leaves)
        /\ \A k \in DOMAIN leaf_nodes :
               /\ leaf_nodes[k].value = NodeAt(data, leaves[k]).value
               /\ leaf_nodes[k].amount = NodeAt(data, leaves[k]).amount
               /\ leaf_nodes[k].path = ValuesTo(data, leaves[k])
        /\ SumAmounts([k \in DOMAIN leaf_nodes |-> leaf_nodes[k].amount])
               = SumAmounts([k \in DOMAIN leaves |-> NodeAt(data, leaves[k]).amount])

\* a tree with a node that has children and with three childless nodes,
\* one of them a root
C22_Witness ==
    /\ Extracted /\ PositionTree
    /\ Len(leaf_nodes) = 3
    /\ Cardinality(Addresses(data)) = 4
    /\ Len(data) = 2
    /\ \E k \in DOMAIN leaf_nodes : leaf_nodes[k].amount # None

\* where element k of a path starts in the joined text, counted from 0
RECURSIVE PathOffset(_, _)
PathOffset(path, k) ==
    IF k = 1 THEN 0 ELSE PathOffset(path, k - 1) + Len(path[k - 1]) + 3

\* text is the elements of path in order with " > " between neighbours
JoinedByArrows(text, path) ==
    /\ Len(text) = PathOffset(path, Len(path)) + Len(path[Len(path)])
    /\ \A k \in DOMAIN path :
           LET from == PathOffset(path, k) IN
           /\ SubSeq(text, from + 1, from + Len(path[k])) = path[k]
           /\ k < Len(path) =>
                  SubSeq(text, from + Len(path[k]) + 1, from + Len(path[k]) + 3)
                      = <<" ", ">", " ">>

\* C23: the path of a leaf record is the sequence of the values from the
\* root to the leaf, the leaf's own value last; depth is the length of the
\* path minus 1, so a childless root has a one-element path and depth 0;
\* full_path of the table row is the path joined by " > ".
C23_PathAndDepth ==
    (Extracted /\ PositionTree) =>
        LET leaves == ChildlessInOrder(data) IN
        /\ \A k \in DOMAIN leaf_nodes :
               /\ leaf_nodes[k].path = ValuesTo(data, leaves[k])
               /\ leaf_nodes[k].path[Len(leaf_nodes[k].path)] = leaf_nodes[k].value
               /\ leaf_nodes[k].depth = Len(leaf_nodes[k].path) - 1
               /\ Len(leaves[k]) = 1 =>
                      (Len(leaf_nodes[k].path) = 1 /\ leaf_nodes[k].depth = 0)
        /\ Converted =>
               \A k \in DOMAIN table_rows :
                   /\ table_rows[k].depth = leaf_nodes[k].depth
                   /\ JoinedByArrows(table_rows[k].full_path, leaf_nodes[k].path)

\* a childless root next to a leaf two levels down, converted to rows
C23_Witness ==
    /\ Converted /\ PositionTree
    /\ \E k \in DOMAIN table_rows : table_rows[k].depth = 0
    /\ \E k \in DOMAIN table_rows :
           /\ table_rows[k].depth = 2
           /\ Len(table_rows[k].full_path) > Len(leaf_nodes[k].value) + 6

\* the largest depth of a childless node of the tree
TreeDepth == Max({Len(a) - 1 : a \in Childless(data)})
EffectiveLevels == IF max_levels > TreeDepth + 1 THEN max_levels ELSE TreeDepth + 1

\* C24: the rows have level fields 0 .. effective level count - 1, where
\* the effective level count is the larger of max_levels and the largest
\* depth + 1; level_i of a row is the value of the i-th node on the row's
\* own path for i <= depth and the empty text for the larger i.
C24_LevelWidening ==
    (Converted /\ PositionTree) =>
        LET leaves == ChildlessInOrder(data) IN
        \A k \in DOMAIN table_rows :
            /\ DOMAIN table_rows[k].level = 0..(EffectiveLevels - 1)
            /\ \A i \in 0..(EffectiveLevels - 1) :
                   table_rows[k].level[i] =
                       IF i <= Len(leaves[k]) - 1
                       THEN NodeAt(data, SubSeq(leaves[k], 1, i + 1)).value
                       ELSE <<>>

\* a tree deeper than max_levels, with a leaf in a shallower sibling branch
\* after the deep one
C24_Witness ==
    /\ Converted /\ PositionTree
    /\ TreeDepth + 1 > max_levels
    /\ Len(table_rows) >= 2
    /\ table_rows[1].depth = TreeDepth
    /\ table_rows[Len(table_rows)].depth < TreeDepth
    /\ table_rows[Len(table_rows)].level[TreeDepth] = <<>>

JoinedTree == data \in JoinedTrees

\* C25: a tree of the Label/Amount Joiner goes through the flattener
\* without error, with one leaf record per childless joined node carrying
\* that node's label as value.
C25_JoinedTreeFlattens ==
    JoinedTree =>
        /\ flatten_step # "KeyError"
        /\ Extracted =>
               LET leaves == ChildlessInOrder(data) IN
               /\ Len(leaf_nodes) = Len(leaves)
               /\ \A k \in DOMAIN leaf_nodes :
                      leaf_nodes[k].value = NodeAt(data, leaves[k]).label

\* C29: find_leaves_and_paths and get_leaf_nodes_with_details emit records
\* for the same childless nodes in the same order, with the same depth:
\* the length of the path minus 1.
C29_FlattenersAgree ==
    (Extracted /\ PositionTree /\ parquet_rows.done) =>
        LET leaves == ChildlessInOrder(data) IN
        /\ Len(parquet_rows.rows) = Len(leaf_nodes)
        /\ \A k \in DOMAIN leaf_nodes :
               /\ parquet_rows.rows[k].amount = leaf_nodes[k].amount
               /\ parquet_rows.rows[k].depth = leaf_nodes[k].depth
               /\ parquet_rows.rows[k].depth = Len(leaves[k]) - 1

EmptyForest == data = <<>>

\* C30: on a tree without root nodes get_leaf_nodes_with_details returns
\* no record, the step that determines the maximum depth fails, and no
\* file is written.
C30_EmptyForest ==
    /\ [](EmptyForest =>
             /\ leaf_nodes = <<>>
             /\ table_file = None
             /\ flatten_step \in {"loaded", "extracted", "ValueError"})
    /\ [][(EmptyForest /\ flatten_step = "extracted" /\ flatten_step' # "extracted")
              => (flatten_step' = "ValueError" /\ table_file' = None)]_vars

\* the failure on an empty tree
C30_Witness == EmptyForest /\ flatten_step = "ValueError" /\ table_file = None

-----------------------------------------------------------------------------
(* Frame and stack properties of the position-based builders (Spec) *)

IsPrefix(a, b) == Len(a) <= Len(b) /\ SubSeq(b, 1, Len(a)) = a

\* the lists of the tree that are one longer after the step: children
\* lists of existing nodes, and the root list
GrownChildren == {i \in NodeIds : Len(nodes'[i].children) = Len(nodes[i].children) + 1}
RootListGrown == Len(root_nodes') = Len(root_nodes) + 1

C26_FrameStep ==
    /\ Len(nodes') >= Len(nodes)
    /\ IsPrefix(root_nodes, root_nodes')
    /\ \A i \in NodeIds :
           /\ nodes'[i].value = nodes[i].value
           /\ nodes'[i].amount = nodes[i].amount
           /\ IsPrefix(nodes[i].children, nodes'[i].children)
    /\ (row_num' # row_num /\ current'.kind = "skip") =>
           /\ nodes' = nodes
           /\ root_nodes' = root_nodes
    /\ (row_num' # row_num /\ current'.kind = "description") =>
           /\ Len(nodes') = Len(nodes)
           /\ root_nodes' = root_nodes
           /\ \A i \in NodeIds :
                  /\ nodes'[i].children = nodes[i].children
                  /\ (node_stack = <<>> \/ i # Top(node_stack)) => nodes'[i] = nodes[i]
           /\ node_stack # <<>> =>
                  LET old == nodes[Top(node_stack)].description
                      new == nodes'[Top(node_stack)].description
                  IN  /\ new # None
                      /\ old # None => (IsPrefix(old[1], new[1]) /\ old # new)
    /\ (row_num' # row_num /\ current'.kind = "node") =>
           /\ Len(nodes') = Len(nodes) + 1
           /\ nodes'[Len(nodes')].children = <<>>
           /\ \A i \in NodeIds : nodes'[i].description = nodes[i].description
           /\ Cardinality(GrownChildren) + (IF RootListGrown THEN 1 ELSE 0) = 1
           /\ \A i \in GrownChildren :
                  nodes'[i].children = Append(nodes[i].children, Len(nodes'))
           /\ RootListGrown => root_nodes' = Append(root_nodes, Len(nodes'))
           /\ \A i \in NodeIds \ GrownChildren : nodes'[i] = nodes[i]

\* C26: a row changes the tree only by appending its new node as the last
\* element of exactly one children list or of the root list, or, for a
\* description row, by extending the description of the node on top of
\* the stack; the value and the amount of every earlier node and the
\* elements of every list stay as they are, and a skipped row changes
\* nothing.
C26_Frame == [][C26_FrameStep]_vars

\* a node with a child that a description row has described, followed by
\* a skipped row
C26_Witness ==
    /\ current.kind = "skip"
    /\ \E i \in NodeIds :
           /\ Len(nodes[i].children) = 1
           /\ nodes[nodes[i].children[1]].description # None

\* the last element of a list of node names
LastOf(list) == list[Len(list)]

\* C27: between any two rows, the depth columns of the stacked nodes
\* strictly increase from the bottom to the top; the bottom is the most
\* recently added root and every other element is the last child of the
\* element below it; the top is the most recently created node; and the
\* stack is not empty once a node exists.
C27_StackInvariant ==
    /\ \A k \in 1..(Len(node_stack) - 1) :
           /\ nodes[node_stack[k]].hierarchy_col < nodes[node_stack[k + 1]].hierarchy_col
           /\ nodes[node_stack[k]].children # <<>>
           /\ LastOf(nodes[node_stack[k]].children) = node_stack[k + 1]
    /\ node_stack # <<>> =>
           /\ root_nodes # <<>>
           /\ node_stack[1] = LastOf(root_nodes)
           /\ Top(node_stack) = Len(nodes)
    /\ nodes # <<>> => node_stack # <<>>

\* a stack of three nodes after an earlier, deeper branch was popped
C27_Witness ==
    /\ Len(node_stack) = 3
    /\ Len(nodes) = 4
    /\ 2 \notin Range(node_stack)

-----------------------------------------------------------------------------
(* The figure column and the hierarchy cues (SpecRow) *)

\* contents of the figure column: nothing, a long figure, short figures
ShortFigures == { <<"5">>, <<"0", ".", "0">>, <<"1", "2", ".", "5">> }
FigureContents == {EmptyCell, StrCell(Figure)} \cup {StrCell(f) : f \in ShortFigures}

\* ordinary text in one column before the figure column, nothing else
\* apart from the figure
TextBeforeFigure(col) ==
    /\ Len(in_row) = value_column + 1
    /\ col < value_column /\ col >= in_start
    /\ Cell(in_row, col) = StrCell(Item)
    /\ \A i \in 0..(value_column - 1) : i # col => Cell(in_row, i) = EmptyCell

\* C28: two rows that differ only in the figure column get the same depth
\* column and the same value from the Row Interpreter; a row with ordinary
\* text before the figure column and a short numeric figure yields that
\* text at that column, with the figure as its amount.
C28_FigureSeparate ==
    (CsvDone /\ Len(in_row) > value_column) =>
        /\ \A fig \in FigureContents :
               LET other == csv_row(put(in_row, value_column, fig), in_start)
               IN  /\ other.kind = csv_out.kind
                   /\ other.hierarchy_col = csv_out.hierarchy_col
                   /\ other.value = csv_out.value
        /\ \A col \in 0..(value_column - 1) :
               (TextBeforeFigure(col) /\ Cell(in_row, value_column).text \in ShortFigures)
                   => (Yields(csv_out, col, col) /\ csv_out.amount # None)

====
